---- MODULE Spec2Model ----
(***************************************************************************)
(* Agent Session Engine of agent-tui: the life cycle of one AgentInstance  *)
(* as driven by the single-threaded bubbletea core (model.go, palette.go,  *)
(* wizard.go) and by the background workers it spawns (launcher command,   *)
(* PTY read command, response-forwarding goroutine, teardown goroutine).   *)
(*                                                                         *)
(* A "session" is one launch of the instance: the emulator, PTY file and   *)
(* child process created by one run of startAgentProcess.  Sessions are    *)
(* numbered 1..MaxLaunch in the order the launch commands are issued; 0    *)
(* (Nil) stands for a nil handle.                                          *)
(*                                                                         *)
(* Further parts: the terminal geometry of the sessions (SpecResize), the  *)
(* skill loadout of the character sheet and the array behind it           *)
(* (SpecEquip, SpecEquipShared), ComposePrompt (SpecCompose), the git      *)
(* worktrees of setupWorktree (SpecWorktree, SpecIsolation), the party     *)
(* with its slots, bench and checkout modal (SpecParty, SpecExited,        *)
(* SpecSwap), the usage counters (SpecContext), and the party list with    *)
(* the agent index, the layout, the mouse and quitting (SpecRoster).       *)
(***************************************************************************)
EXTENDS Integers, FiniteSets, Sequences, TLC

\* Number of launch commands the user/auto-start may issue in one run.
MaxLaunch == 2

Nil == 0
Sessions == 1..MaxLaunch
\* Where an AgentExitedMsg comes from: the session whose launch failed or
\* whose PTY was being read, or Nil for a read built on nil handles.  The
\* message itself carries only the instance ID.
Origins == {Nil} \cup Sessions

VARIABLES
    Status,            \* inst.Status: "idle" | "running" | "exited"
    cmd,               \* inst.cmd: session whose process handle is held, or Nil
    ptyFile,           \* inst.ptyFile: session whose PTY file is held, or Nil
    emulator,          \* inst.emulator: session whose emulator is held, or Nil
    Worktree,          \* inst.Worktree: "" or "wt"
    LastOutput,        \* inst.LastOutput: "" or "snap"
    mode,              \* m.mode
    checkoutAgent,     \* m.checkoutAgent: TRUE when it points at the instance
    checkoutStep,      \* m.checkoutStep
    autoStartPending,  \* m.autoStartPending
    coreWrite,         \* PTY the core is writing to inside handleInsertMode, or Nil
    writeLen,          \* len(b) of that write
    launched,          \* number of launch commands issued so far
    launch,            \* per session: its launch command: "none", "running",
                       \*   "started" / "failed" (answer in flight), "done" (answered)
    startedWt,         \* per session: Worktree field of its AgentStartedMsg
    em,                \* per session: emulator object  "none" | "open" | "closed"
    pty,               \* per session: PTY master file   "none" | "open" | "closed"
    proc,              \* per session: child process "none" | "alive" | "exited" | "waited"
    signalled,         \* per session: SIGTERM was sent to the child
    reads,             \* per session: outstanding readAgentPTY commands on its PTY
    outMsgs,           \* number of AgentOutputMsg in flight
    exitMsgs,          \* per session of origin: AgentExitedMsg in flight
    fwd,               \* per session: forwardResponses goroutine started for it
    td,                \* per session: teardown goroutine of handleAgentExited
    crashed            \* the program panicked (nil emulator dereference)

\* Terminal geometry; a size is <<rows, cols>>.
VARIABLES
    layout,            \* <<m.layout.TermHeight, m.layout.TermWidth>>
    launchSize,        \* per session: <<lc.Rows, lc.Cols>> of its LaunchConfig
    ptySize,           \* per session: window size of its PTY (TIOCSWINSZ)
    emSize,            \* per session: size of its emulator
    jig,               \* per session: delayedResize command started for it
    coreResize,        \* PTY resized by the core whose emulator is still to be
                       \*   resized by the same handler, or Nil
    lastReq            \* per session: size of the latest resize the core applied
                       \*   to it, <<>> when there was none (history)

\* Skill loadout of the instance (character sheet).
VARIABLES
    classCfg,          \* m.config.Classes[inst.ClassName], NoClass when the class
                       \*   is not configured
    Equipped,          \* inst.Equipped: list of skill IDs
    eqBase,            \* loadout before the first of a pair of ToggleEquip calls (history)
    eqSkill,           \* skill ID of that pair while it is open (history)
    eqRun,             \* calls of the pair made so far: 0, 1 or 2 (history)
    eqArray,           \* the array behind inst.Equipped, cap(inst.Equipped) long,
                       \*   while def.DefaultEquipped reads it too; <<>> otherwise
    DefaultEquipped,   \* def.DefaultEquipped of the agent the instance was built from
    eqShared           \* def.DefaultEquipped and inst.Equipped have the same array

\* One call of ComposePrompt.
VARIABLES
    compClass,         \* cfg.Classes[className], or NoClass
    compEquipped,      \* argument equipped
    compDirectives,    \* argument agentDirectives is non-empty
    composed           \* the ComposedPrompt returned, NotComposed before the call

\* Worktrees of one project as setupWorktree and cleanupWorktree see them.
VARIABLES
    wtPair,            \* the <<partyName, agentName>> the calls are made for
    isRepo,            \* projectDir is inside a git work tree
    wtFs,              \* per worktree path: "absent" | "valid" | "stale"
    branches,          \* branch names that exist in the repository
    wtLog              \* results of the calls made so far, in order (history)

\* The bindings of the instance to its worktree, and the git repository
\* behind them as the launcher and the cleanup goroutines see it.
VARIABLES
    Branch,            \* inst.Branch: "" or "br"
    startedBr,         \* per session: Branch field of its AgentStartedMsg
    wtReg,             \* worktree paths registered in the repository
    index,             \* index of projectDir: "clean" | "staged" | "conflict"
    merged,            \* the base holds a commit with the agent branch's work
    setupPc,           \* per session: position of its launcher in setupWorktree
    gitLog,            \* per session: git commands its setupWorktree ran (history)
    workDir,           \* per session: cmd.Dir, "" | "project" | "wt"
    cleanups,          \* cleanupWorktree goroutines started so far, in order
    deleteConfirm,     \* m.deleteConfirm
    partyDeleted,      \* the party of the instance was removed from m.parties
    partyCleanup       \* the cleanupPartyWorktrees goroutine

\* The active party: its slots and bench, the instances in them, and the
\* launches of these instances.  Instances are numbered from 1.
VARIABLES
    Slots,             \* p.Slots: per index 0..MaxPartySlots-1 an instance or Nil
    Bench,             \* p.Bench: list of instances, Nil for a nil entry
    selectedAgent,     \* m.selectedAgent
    swapIndex,         \* m.swapIndex
    agents,            \* per instance: the fields of its AgentInstance
    checkoutId,        \* m.checkoutAgent: the instance, Nil for nil
    handoffTarget,     \* m.handoffTarget
    runs,              \* the launches so far, in the order startAgent was called
    handoffLog         \* per handoff made so far: its target and the number of
                       \*   launches there were (history)

\* The usage counters of the instance and the context scan of its screen.
VARIABLES
    outputReads,       \* inst.outputReads
    ContextBytes,      \* inst.ContextBytes
    ContextTokens,     \* inst.ContextTokens
    ContextMax,        \* inst.ContextMax
    ctxScan            \* the screen parseContextFromTerminal read in the latest
                       \*   handled output, NoScan when it was not called (history)

\* All parties of the model, for the agent index and party deletion.
VARIABLES
    parties,           \* m.parties: per party its Slots and Bench
    activeParty,       \* m.activeParty
    agentIndex,        \* m.agentIndex: the instance IDs it maps
    wizard,            \* m.wizard: "none" for nil, else its step
    termed,            \* launches whose child was sent SIGTERM
    instID,            \* per instance: its ID
    window,            \* <<m.width, m.height>>
    cards,             \* m.layout: CardWidth, CardHeight and CardsPerRow
    quit               \* tea.Quit was returned

vars == <<Status, cmd, ptyFile, emulator, Worktree, LastOutput, mode,
          checkoutAgent, checkoutStep, autoStartPending, coreWrite, writeLen, launched,
          launch, startedWt, em, pty, proc, signalled, reads, outMsgs,
          exitMsgs, fwd, td, crashed,
          layout, launchSize, ptySize, emSize, jig, coreResize, lastReq,
          classCfg, Equipped, eqBase, eqSkill, eqRun,
          eqArray, DefaultEquipped, eqShared,
          compClass, compEquipped, compDirectives, composed,
          wtPair, isRepo, wtFs, branches, wtLog,
          Branch, startedBr, wtReg, index, merged, setupPc, gitLog, workDir,
          cleanups, deleteConfirm, partyDeleted, partyCleanup,
          Slots, Bench, selectedAgent, swapIndex, agents, checkoutId,
          handoffTarget, runs, handoffLog,
          outputReads, ContextBytes, ContextTokens, ContextMax, ctxScan,
          parties, activeParty, agentIndex, wizard, termed,
          instID, window, cards, quit>>

instVars == <<Status, cmd, ptyFile, emulator, Worktree, LastOutput>>
uiVars   == <<mode, checkoutAgent, checkoutStep, autoStartPending>>
resVars  == <<em, pty, proc, signalled>>
msgVars  == <<reads, outMsgs, exitMsgs>>
\* Geometry state other than the layout and the launch configurations.
geoVars  == <<ptySize, emSize, jig, coreResize, lastReq>>
equipVars    == <<classCfg, Equipped, eqBase, eqSkill, eqRun,
                 eqArray, DefaultEquipped, eqShared>>
composeVars  == <<compClass, compEquipped, compDirectives, composed>>
worktreeVars == <<wtPair, isRepo, wtFs, branches, wtLog>>
\* The repository and the goroutines that run git on it.
gitVars == <<wtReg, index, merged, setupPc, gitLog, workDir, deleteConfirm,
             partyDeleted, partyCleanup>>
\* State the session engine does not touch, but for the Branch binding and
\* the cleanup goroutines the checkout modal starts.
partyVars == <<Slots, Bench, selectedAgent, swapIndex, agents, checkoutId,
               handoffTarget, runs, handoffLog>>
\* The usage counters, which only handleAgentStarted, handleAgentOutput and
\* the insert-mode keystrokes write.
ctxVars == <<outputReads, ContextBytes, ContextTokens, ContextMax, ctxScan>>
\* The party list and the index built from it.
rosterKeep == <<parties, activeParty, agentIndex, wizard, termed, instID,
                window, quit>>
rosterVars == <<rosterKeep, cards>>
restVars == <<equipVars, composeVars, worktreeVars, gitVars, partyVars, ctxVars, rosterVars>>
pureVars == <<restVars, Branch, startedBr, cleanups>>
\* The counters but ContextBytes.
ctxVarsButBytes == <<outputReads, ContextTokens, ContextMax, ctxScan>>
\* pureVars but the counters.
pureVarsButCtx ==
    <<equipVars, composeVars, worktreeVars, gitVars, partyVars, rosterVars,
      Branch, startedBr, cleanups>>
\* State of the instance, its sessions and the terminal geometry.
agentVars == <<Status, cmd, ptyFile, emulator, Worktree, LastOutput, mode,
               checkoutAgent, checkoutStep, autoStartPending, coreWrite, writeLen, launched,
               launch, startedWt, em, pty, proc, signalled, reads, outMsgs,
               exitMsgs, fwd, td, crashed,
               layout, launchSize, ptySize, emSize, jig, coreResize, lastReq>>

FwdIdle == [pc |-> "none", em |-> Nil, pty |-> Nil]

NoSize == <<>>
JigIdle == [pc |-> "none", size |-> NoSize, alone |-> TRUE]

\* termWidth() / termHeight() before the first recomputeLayout
\* (model.go:379-396): width and height are 0, so the main pane is 20 wide
\* and the terminal 18 by 3.
minTermRows == 3
minTermCols == 18

\* m.width and m.height before the first WindowSizeMsg, and the card fields
\* of the zero LayoutCache.
NoWindow == <<0, 0>>
NoCards == [CardWidth |-> 0, CardHeight |-> 0, CardsPerRow |-> 0]

\* A class of cfg.Classes with its InnateSkills list, and a class that
\* cfg.Classes does not hold (nil *ClassConfig).
Class(innate) == [known |-> TRUE, InnateSkills |-> innate]
NoClass == [known |-> FALSE, InnateSkills |-> <<>>]
\* No ComposedPrompt returned yet; after the call the variable holds the
\* one result.
NotComposed == <<>>
\* Skill IDs are numbered from 1; 0 is no skill.
NoSkill == 0

\* The instance as buildInstance leaves it (Status idle, no handles) and
\* the model as initialModel has just built it, before any message, but
\* for autoStartPending.
InitModel ==
    /\ Status = "idle"
    /\ cmd = Nil /\ ptyFile = Nil /\ emulator = Nil
    /\ Worktree = "" /\ LastOutput = ""
    /\ mode = "normal"
    /\ checkoutAgent = FALSE
    /\ checkoutStep = 0
    /\ coreWrite = Nil /\ writeLen = 0
    /\ launched = 0
    /\ launch = [s \in Sessions |-> "none"]
    /\ startedWt = [s \in Sessions |-> ""]
    /\ em = [s \in Sessions |-> "none"]
    /\ pty = [s \in Sessions |-> "none"]
    /\ proc = [s \in Sessions |-> "none"]
    /\ signalled = [s \in Sessions |-> FALSE]
    /\ reads = [s \in Sessions |-> 0]
    /\ outMsgs = 0
    /\ exitMsgs = [o \in Origins |-> 0]
    /\ fwd = [s \in Sessions |-> FwdIdle]
    /\ td = [s \in Sessions |-> "none"]
    /\ crashed = FALSE
    /\ layout = <<minTermRows, minTermCols>>
    /\ launchSize = [s \in Sessions |-> NoSize]
    /\ ptySize = [s \in Sessions |-> NoSize]
    /\ emSize = [s \in Sessions |-> NoSize]
    /\ jig = [s \in Sessions |-> JigIdle]
    /\ coreResize = Nil
    /\ lastReq = [s \in Sessions |-> NoSize]

\* initialModel with one party file (part_000:89-91): the party is shown
\* and its agents start with the first WindowSizeMsg.
InitAgent == InitModel /\ autoStartPending = TRUE

\* No loadout under study: an instance of an unconfigured class with
\* nothing equipped.
InitEquipIdle ==
    /\ classCfg = NoClass /\ Equipped = <<>>
    /\ eqBase = <<>> /\ eqSkill = NoSkill /\ eqRun = 0
    /\ eqArray = <<>> /\ DefaultEquipped = <<>> /\ eqShared = FALSE

\* No ComposePrompt call under study.
InitComposeIdle ==
    /\ compClass = NoClass /\ compEquipped = <<>>
    /\ compDirectives = FALSE /\ composed = NotComposed

\* No worktree call under study: the project is not a git repository.
InitWorktreeIdle ==
    /\ wtPair = <<>> /\ isRepo = FALSE
    /\ wtFs = <<>> /\ branches = {} /\ wtLog = <<>>

\* No cleanupWorktree goroutine, and none of cleanupPartyWorktrees.
NoCleanups == <<>>
PartyCleanupIdle == [pc |-> "none", todo |-> <<>>]

\* Nothing bound, no launcher inside setupWorktree, no cleanup started.
InitGoroutinesIdle ==
    /\ Branch = ""
    /\ startedBr = [s \in Sessions |-> ""]
    /\ setupPc = [s \in Sessions |-> "none"]
    /\ gitLog = [s \in Sessions |-> <<>>]
    /\ workDir = [s \in Sessions |-> ""]
    /\ cleanups = NoCleanups
    /\ deleteConfirm = FALSE
    /\ partyDeleted = FALSE
    /\ partyCleanup = PartyCleanupIdle

\* No goroutine on the repository, which has no registered worktree.
InitGitIdle ==
    /\ InitGoroutinesIdle
    /\ wtReg = {} /\ index = "clean" /\ merged = FALSE

\* No party is looked at.
InitPartyIdle ==
    /\ Slots = <<>> /\ Bench = <<>>
    /\ selectedAgent = 0 /\ swapIndex = 0
    /\ agents = <<>>
    /\ checkoutId = Nil /\ handoffTarget = -1
    /\ runs = <<>> /\ handoffLog = <<>>

\* parseContextFromTerminal was not called.
NoScan == [called |-> FALSE, screen |-> <<>>]

\* The counters of a fresh AgentInstance (buildInstance, model.go:1465-1512).
InitCtxIdle ==
    /\ outputReads = 0 /\ ContextBytes = 0
    /\ ContextTokens = 0 /\ ContextMax = 0
    /\ ctxScan = NoScan

\* No party list is looked at.
InitRosterIdle ==
    /\ parties = <<>> /\ activeParty = 0
    /\ agentIndex = {} /\ wizard = "none" /\ termed = {}
    /\ instID = <<>> /\ window = NoWindow /\ cards = NoCards
    /\ quit = FALSE

Init ==
    /\ InitAgent /\ InitRosterIdle /\ InitCtxIdle /\ InitEquipIdle /\ InitComposeIdle /\ InitWorktreeIdle
    /\ InitGitIdle /\ InitPartyIdle

\* The core handles one message at a time; it is free when no handler is
\* in the middle of a PTY write or of a resize and the program has not
\* panicked.
CoreFree == ~crashed /\ coreWrite = Nil /\ coreResize = Nil

\* Key handlers and agent messages: the first message the core handles is
\* the WindowSizeMsg bubbletea sends at start-up, which consumes
\* autoStartPending; nothing else is handled before it.
CoreReady == CoreFree /\ ~autoStartPending

(***************************************************************************)
(* Launching: startAgent / startAgentProcess                               *)
(***************************************************************************)

\* startAgent (part_003:82-99): hands a LaunchConfig to the launcher and
\* returns its command; the bubbletea runtime then runs the command on a
\* goroutine of its own.  The new command is session launched+1; size is
\* the <<rows, cols>> passed by the caller.
StartAgent(size) ==
    /\ launched < MaxLaunch
    /\ launched' = launched + 1
    /\ launch' = [launch EXCEPT ![launched + 1] = "running"]
    /\ launchSize' = [launchSize EXCEPT ![launched + 1] = size]

\* The start request shared by the four "start" entry points: the guard
\* Status in {idle, exited}, then Status = "idle" and the launch command.
\* (termWidth() and termHeight() are at least 18 and 3, so the tw > 0 &&
\* th > 0 test of the handlers always passes.)
CanStart == Status = "idle" \/ Status = "exited"

StartRequest ==
    /\ CanStart
    /\ Status' = "idle"
    /\ StartAgent(layout)
    /\ UNCHANGED <<cmd, ptyFile, emulator, Worktree, LastOutput>>
    /\ UNCHANGED <<checkoutAgent, checkoutStep, autoStartPending, coreWrite, writeLen>>
    /\ UNCHANGED <<startedWt, fwd, td, crashed>>
    /\ UNCHANGED resVars /\ UNCHANGED msgVars
    /\ UNCHANGED layout /\ UNCHANGED geoVars /\ UNCHANGED pureVars

\* handleMainPaneKeys, case "s" (model.go:901-920).
HandleMainPaneKeyS ==
    /\ CoreReady /\ mode = "normal"
    /\ StartRequest
    /\ UNCHANGED mode

\* handlePartyBarKeys, case "s" (model.go:960-979).
HandlePartyBarKeyS ==
    /\ CoreReady /\ mode = "normal"
    /\ StartRequest
    /\ UNCHANGED mode

\* handleCharSheetMode, case "s" (model.go:1092-1112): also leaves the sheet.
HandleCharSheetKeyS ==
    /\ CoreReady /\ mode = "charsheet"
    /\ StartRequest
    /\ mode' = "normal"

\* paletteActions, "Start <name>" (palette.go:36-63), run by "enter" in
\* handleCommandPalette, which then pops back to normal mode.
PaletteStart ==
    /\ CoreReady /\ mode = "palette"
    /\ StartRequest
    /\ mode' = "normal"

\* The terminal the program is started in gives this layout.
StartSize == <<24, 80>>

\* handleResize for the WindowSizeMsg of start-up, with autoStartPending
\* set (model.go:541-567), running autoStartPartyAgents (wizard.go:306-330):
\* the layout is recomputed, every idle slot is launched with the new
\* terminal size; Status is left as it is.  (No instance is running yet,
\* so the resize loop does nothing.)
HandleResizeAutoStart ==
    /\ CoreFree
    /\ autoStartPending
    /\ autoStartPending' = FALSE
    /\ layout' = StartSize
    /\ (Status = "idle" => launched < MaxLaunch)
    /\ IF Status = "idle"
          THEN StartAgent(StartSize)
          ELSE UNCHANGED <<launched, launch, launchSize>>
    /\ UNCHANGED geoVars /\ UNCHANGED pureVars
    /\ UNCHANGED instVars
    /\ UNCHANGED <<mode, checkoutAgent, checkoutStep, coreWrite, writeLen>>
    /\ UNCHANGED <<startedWt, fwd, td, crashed>>
    /\ UNCHANGED resVars /\ UNCHANGED msgVars

\* startAgentProcess (part_003:102-163), success: emulator created,
\* setupWorktree succeeded (wt = "wt") or not (wt = ""), the child started
\* on a new PTY, AgentStartedMsg returned with the path and the branch
\* setupWorktree gave, both empty when it failed.
StartAgentProcessOk(s, wt) ==
    /\ ~crashed
    /\ launch[s] = "running"
    /\ em' = [em EXCEPT ![s] = "open"]
    /\ pty' = [pty EXCEPT ![s] = "open"]
    /\ emSize' = [emSize EXCEPT ![s] = launchSize[s]]
    /\ ptySize' = [ptySize EXCEPT ![s] = launchSize[s]]
    /\ UNCHANGED <<layout, launchSize, jig, coreResize, lastReq>>
    /\ UNCHANGED <<restVars, Branch, cleanups>>
    /\ proc' = [proc EXCEPT ![s] = "alive"]
    /\ launch' = [launch EXCEPT ![s] = "started"]
    /\ startedWt' = [startedWt EXCEPT ![s] = wt]
    /\ startedBr' = [startedBr EXCEPT ![s] = IF wt = "" THEN "" ELSE "br"]
    /\ UNCHANGED instVars /\ UNCHANGED uiVars /\ UNCHANGED msgVars
    /\ UNCHANGED <<coreWrite, writeLen, launched, signalled, fwd, td, crashed>>

\* startAgentProcess, pty.StartWithSize failed (part_003:147-150): the
\* fresh emulator is closed and AgentExitedMsg{Err} is returned.
StartAgentProcessFail(s) ==
    /\ ~crashed
    /\ launch[s] = "running"
    /\ em' = [em EXCEPT ![s] = "closed"]
    /\ launch' = [launch EXCEPT ![s] = "failed"]
    /\ exitMsgs' = [exitMsgs EXCEPT ![s] = @ + 1]
    /\ UNCHANGED instVars /\ UNCHANGED uiVars
    /\ UNCHANGED <<coreWrite, writeLen, launched, startedWt, pty, proc, signalled,
                   reads, outMsgs, fwd, td, crashed>>
    /\ emSize' = [emSize EXCEPT ![s] = launchSize[s]]
    /\ UNCHANGED <<layout, launchSize, ptySize, jig, coreResize, lastReq>>
    /\ UNCHANGED pureVars


(***************************************************************************)
(* Usage counters: the context scan of handleAgentOutput                   *)
(***************************************************************************)

\* handleAgentOutput scans on every outputReads%50 == 0 (model.go:633).
ScanEvery == 50
\* parseContextFromTerminal looks at the last 500 bytes (part_003:302-303).
ScanLimit == 500
\* Outputs of a running instance handled in one run of SpecContext, and in
\* one run of the life cycle.
MaxOutputs == 51
MaxReads == 1

\* The usage text of the screens: "12K/200K tokens", 15 bytes, the first
\* two of them the digits of the used count.
UsageText == [len |-> 15, digits |-> 2, used |-> 12, max |-> 200]

\* A rendered screen: pre one-byte characters, then the usage text when the
\* screen has one, then post characters of width bytes each, none of which
\* is a digit.
ScreenBytes(sc) ==
    sc.pre + (IF sc.usage THEN UsageText.len ELSE 0) + sc.post * sc.width
ScreenChars(sc) ==
    sc.pre + (IF sc.usage THEN UsageText.len ELSE 0) + sc.post

RECURSIVE Pow10(_)
Pow10(k) == IF k = 0 THEN 1 ELSE 10 * Pow10(k - 1)

\* contextPattern.FindStringSubmatch (part_003:19, 304) on the last r units
\* of what comes before the post characters: the usage text whole, or what
\* a cut through its leading digits left of it, or no match (<<>>).
FindUsage(sc, r) ==
    LET lost == UsageText.len - r
    IN  IF ~sc.usage \/ r < 0 THEN <<>>
        ELSE IF lost <= 0 THEN <<UsageText.used, UsageText.max>>
        ELSE IF lost < UsageText.digits
                THEN <<UsageText.used % Pow10(UsageText.digits - lost), UsageText.max>>
        ELSE <<>>

\* The match in screen[len(screen)-500:], the last 500 bytes, or in the
\* whole screen when it is no longer than that (part_003:301-304).
MatchInTail(sc) ==
    IF ScreenBytes(sc) > ScanLimit
       THEN FindUsage(sc, ScanLimit - sc.post * sc.width)
       ELSE FindUsage(sc, ScreenBytes(sc) - sc.post * sc.width)

\* A scan that matches against the whole screen.
ParseContextWholeScreen(sc, tokens, max) ==
    LET m == FindUsage(sc, ScreenBytes(sc) - sc.post * sc.width)
    IN  IF m # <<>> THEN <<m[1] * 1000, m[2] * 1000>> ELSE <<tokens, max>>

\* parseContextFromTerminal (part_003:295-313) on a held emulator whose
\* Render() is sc: the new <<ContextTokens, ContextMax>>.  ParseFloat
\* accepts every number the pattern matched on these screens.
ParseContext(sc, tokens, max) ==
    LET m == MatchInTail(sc)
    IN  IF m # <<>> THEN <<m[1] * 1000, m[2] * 1000>> ELSE <<tokens, max>>

\* What emulator.Render() returns at the scans of a run: no usage text, the
\* text at the end, before the last 500 bytes, cut by them, and within the
\* last 500 characters but not within the last 500 bytes.
CtxScreens ==
    { [pre |-> 40, usage |-> FALSE, post |-> 0, width |-> 1],
      [pre |-> 40, usage |-> TRUE, post |-> 3, width |-> 1],
      [pre |-> 40, usage |-> TRUE, post |-> 600, width |-> 1],
      [pre |-> 40, usage |-> TRUE, post |-> 486, width |-> 1],
      [pre |-> 40, usage |-> TRUE, post |-> 200, width |-> 3] }

\* msg.BytesRead of the AgentOutputMsg of a run.
BytesReads == {1}

\* inst.outputReads%50 == 0 (model.go:633) after the increment to n.
ScanDue(n) == n % ScanEvery = 0


(***************************************************************************)
(* Agent lifecycle messages: handleAgentStarted / Output / Exited          *)
(***************************************************************************)

\* readAgentPTY (part_003:179-197) captures inst.ptyFile and inst.emulator
\* when the command is built.  With a nil handle the command returns
\* AgentExitedMsg at once; otherwise one more read is outstanding on the
\* captured PTY.  rd and ex are the read and exit-message counters to update.
ReadAgentPTY(ptf, e, rd, ex) ==
    IF ptf = Nil \/ e = Nil
       THEN /\ reads' = rd
            /\ exitMsgs' = [ex EXCEPT ![Nil] = @ + 1]
       ELSE /\ reads' = [rd EXCEPT ![ptf] = @ + 1]
            /\ exitMsgs' = ex

\* agentByID(msg.ID) of the three agent messages is not nil: m.agentIndex,
\* which initialModel builds from the parties it loaded, is the only thing
\* consulted (model.go:297-300), and doDeleteParty rebuilds it from the
\* parties that are left (model.go:1425).
InstFound == ~partyDeleted

\* handleAgentStarted (model.go:605-623): a message whose instance
\* agentByID does not find is dropped (606-609), and the handles it carries
\* with it.  Otherwise the handler installs the handles of the message,
\* sets Status running, resets ContextBytes and leaves the other counters
\* as they are, starts forwardResponses and issues the first PTY read and
\* the delayedResize command for the current terminal size.
HandleAgentStarted(s) ==
    /\ CoreReady
    /\ launch[s] = "started"
    /\ launch' = [launch EXCEPT ![s] = "done"]
    /\ IF InstFound
          THEN /\ cmd' = s /\ ptyFile' = s /\ emulator' = s
               /\ Worktree' = startedWt[s]
               /\ Branch' = startedBr[s]
               /\ Status' = "running"
               /\ fwd' = [fwd EXCEPT ![s] = [pc |-> "top", em |-> Nil, pty |-> Nil]]
               /\ ReadAgentPTY(s, s, reads, exitMsgs)
               /\ jig' = [jig EXCEPT ![s] =
                               [pc |-> "sleep", size |-> layout, alone |-> TRUE]]
               /\ ContextBytes' = 0
          ELSE /\ UNCHANGED <<cmd, ptyFile, emulator, Worktree, Branch, Status>>
               /\ UNCHANGED <<fwd, reads, exitMsgs, jig, ContextBytes>>
    /\ UNCHANGED <<outputReads, ContextTokens, ContextMax, ctxScan>>
    /\ UNCHANGED <<LastOutput, outMsgs, coreWrite, writeLen, launched, startedWt, td, crashed>>
    /\ UNCHANGED uiVars /\ UNCHANGED resVars
    /\ UNCHANGED <<layout, launchSize, ptySize, emSize, coreResize, lastReq>>
    /\ UNCHANGED <<equipVars, composeVars, worktreeVars, gitVars, partyVars,
                   rosterVars, startedBr, cleanups>>

\* handleAgentOutput (model.go:625-640) for a message with BytesRead n; sc
\* is what the emulator renders now.  For a running instance the bytes are
\* added to ContextBytes, outputReads goes up, every 50th message the
\* screen of a held emulator is scanned, and the next read is issued; a
\* message for an instance that agentByID does not find or that is not
\* running is dropped and nothing is returned.
HandleAgentOutput(n, sc) ==
    /\ CoreReady
    /\ outMsgs > 0
    /\ outMsgs' = outMsgs - 1
    /\ IF InstFound /\ Status = "running"
          THEN /\ ContextBytes' = ContextBytes + n
               /\ outputReads' = outputReads + 1
               /\ IF ScanDue(outputReads + 1) /\ emulator # Nil
                     THEN /\ ContextTokens' = ParseContext(sc, ContextTokens, ContextMax)[1]
                          /\ ContextMax' = ParseContext(sc, ContextTokens, ContextMax)[2]
                          /\ ctxScan' = [called |-> TRUE, screen |-> <<sc>>]
                     ELSE /\ UNCHANGED <<ContextTokens, ContextMax>>
                          /\ ctxScan' = NoScan
               /\ ReadAgentPTY(ptyFile, emulator, reads, exitMsgs)
          ELSE /\ UNCHANGED <<reads, exitMsgs>>
               /\ UNCHANGED <<outputReads, ContextBytes, ContextTokens, ContextMax>>
               /\ ctxScan' = NoScan
    /\ UNCHANGED instVars /\ UNCHANGED uiVars /\ UNCHANGED resVars
    /\ UNCHANGED <<coreWrite, writeLen, launched, launch, startedWt, fwd, td, crashed>>
    /\ UNCHANGED <<layout, launchSize>> /\ UNCHANGED geoVars /\ UNCHANGED pureVarsButCtx

\* The running branch of handleAgentOutput has been taken fewer than cap
\* times.
OutputsBelow(cap) == InstFound /\ Status = "running" => outputReads < cap

\* A cleanup goroutine that closes the PTY file before the emulator.
TeardownOrderPtyFirst == <<"closePty", "closeEm", "wait", "done">>

\* The cleanup goroutine of handleAgentExited (model.go:689-699) releases
\* the captured handles in this order: em.Close(), ptf.Close(), cmd.Wait().
TeardownOrder == <<"closeEm", "closePty", "wait", "done">>

\* The step of the cleanup goroutine that follows step.
TeardownNext(step) ==
    LET i == CHOOSE k \in 1..3 : TeardownOrder[k] = step IN TeardownOrder[i + 1]

\* handleAgentExited (model.go:642-702): a message whose instance
\* agentByID does not find is dropped and the instance is left as it is
\* (643-646).  Otherwise: Status exited, snapshot of the screen when an
\* emulator is held, checkout modal, handles cleared and the cleanup
\* goroutine started on the handles that were held (the three handles are
\* always those of one session, see HandlesTogether).  When the message is
\* the answer of a failed launch, that launch is answered.
HandleAgentExited(o) ==
    /\ CoreReady
    /\ exitMsgs[o] > 0
    /\ exitMsgs' = [exitMsgs EXCEPT ![o] = @ - 1]
    /\ IF InstFound
          THEN /\ Status' = "exited"
               /\ LastOutput' = IF emulator # Nil THEN "snap" ELSE LastOutput
               /\ checkoutAgent' = TRUE
               /\ checkoutStep' = 0
               /\ mode' = "checkout"
               /\ cmd' = Nil /\ ptyFile' = Nil /\ emulator' = Nil
               /\ td' = IF emulator # Nil
                           THEN [td EXCEPT ![emulator] = TeardownOrder[1]]
                           ELSE td
          ELSE /\ UNCHANGED <<Status, LastOutput, checkoutAgent, checkoutStep, mode>>
               /\ UNCHANGED <<cmd, ptyFile, emulator, td>>
    /\ launch' = IF o # Nil /\ launch[o] = "failed"
                    THEN [launch EXCEPT ![o] = "done"]
                    ELSE launch
    /\ UNCHANGED <<Worktree, autoStartPending, coreWrite, writeLen, launched,
                   startedWt, reads, outMsgs, fwd, crashed>>
    /\ UNCHANGED resVars
    /\ UNCHANGED <<layout, launchSize>> /\ UNCHANGED geoVars /\ UNCHANGED pureVars

(***************************************************************************)
(* Explicit stop                                                           *)
(***************************************************************************)

\* inst.cmd.Process.Signal(SIGTERM) on the held process handle.
Signal(c) == [signalled EXCEPT ![c] = TRUE]

\* handleMainPaneKeys, case "x" (model.go:921-929).
HandleMainPaneKeyX ==
    /\ CoreReady /\ mode = "normal"
    /\ Status = "running"
    /\ Status' = "exited"
    /\ signalled' = IF cmd # Nil THEN Signal(cmd) ELSE signalled
    /\ UNCHANGED <<cmd, ptyFile, emulator, Worktree, LastOutput>>
    /\ UNCHANGED uiVars /\ UNCHANGED msgVars
    /\ UNCHANGED <<coreWrite, writeLen, launched, launch, startedWt, em, pty, proc, fwd, td, crashed>>
    /\ UNCHANGED <<layout, launchSize>> /\ UNCHANGED geoVars /\ UNCHANGED pureVars

\* handleCharSheetMode, case "x" (model.go:1113-1118).
HandleCharSheetKeyX ==
    /\ CoreReady /\ mode = "charsheet"
    /\ Status = "running" /\ cmd # Nil
    /\ Status' = "exited"
    /\ signalled' = Signal(cmd)
    /\ UNCHANGED <<cmd, ptyFile, emulator, Worktree, LastOutput>>
    /\ UNCHANGED uiVars /\ UNCHANGED msgVars
    /\ UNCHANGED <<coreWrite, writeLen, launched, launch, startedWt, em, pty, proc, fwd, td, crashed>>
    /\ UNCHANGED <<layout, launchSize>> /\ UNCHANGED geoVars /\ UNCHANGED pureVars

\* paletteActions, "Stop <name>" (palette.go:74-86), then popMode.
PaletteStop ==
    /\ CoreReady /\ mode = "palette"
    /\ Status = "running"
    /\ IF cmd # Nil
          THEN Status' = "exited" /\ signalled' = Signal(cmd)
          ELSE UNCHANGED <<Status, signalled>>
    /\ mode' = "normal"
    /\ UNCHANGED <<cmd, ptyFile, emulator, Worktree, LastOutput>>
    /\ UNCHANGED <<checkoutAgent, checkoutStep, autoStartPending>>
    /\ UNCHANGED msgVars
    /\ UNCHANGED <<coreWrite, writeLen, launched, launch, startedWt, em, pty, proc, fwd, td, crashed>>
    /\ UNCHANGED <<layout, launchSize>> /\ UNCHANGED geoVars /\ UNCHANGED pureVars


(***************************************************************************)
(* Modes                                                                   *)
(***************************************************************************)

\* popMode (model.go:338-345).  pushMode is only called from the normal-mode
\* key handlers, so every entry of modeStack is ModeNormal and popping, like
\* the empty-stack case, yields normal mode.
PopMode == "normal"

SetMode(new) ==
    /\ CoreReady
    /\ mode' = new
    /\ UNCHANGED instVars /\ UNCHANGED resVars /\ UNCHANGED msgVars
    /\ UNCHANGED <<checkoutAgent, checkoutStep, autoStartPending>>
    /\ UNCHANGED <<coreWrite, writeLen, launched, launch, startedWt, fwd, td, crashed>>
    /\ UNCHANGED <<layout, launchSize>> /\ UNCHANGED geoVars /\ UNCHANGED pureVars

\* handleNormalMode, case ":" (model.go:781-785).
OpenPalette == mode = "normal" /\ SetMode("palette")

\* handleMainPaneKeys / handlePartyBarKeys, case "enter" (model.go:887-895).
OpenCharSheet == mode = "normal" /\ SetMode("charsheet")

\* handleMainPaneKeys, case "i" (model.go:896-900); handleCharSheetMode,
\* case "i" (model.go:1087-1091); palette "Focus" (palette.go:64-73).
EnterInsert ==
    /\ mode \in {"normal", "charsheet", "palette"}
    /\ Status = "running"
    /\ SetMode("insert")

\* "esc" in insert mode (model.go:989-992), in the character sheet
\* (model.go:1058-1061) and in the palette (palette.go:159-161).
EscapeMode ==
    /\ mode \in {"insert", "charsheet", "palette"}
    /\ SetMode(PopMode)

(***************************************************************************)
(* Insert mode: keystrokes written to the PTY by the core                  *)
(***************************************************************************)

\* A key is typed while inst.ContextBytes, with the bytes of the key,
\* stays within this.
MaxTyped == 2

\* len(keyToBytes(msg)) (keys.go:8-214) of the keys typed: 0 for a key it
\* does not map (nil), 1 for a printable character.
KeyLens == {0, 1}

\* handleInsertMode (model.go:987-1004) for a key other than esc whose
\* bytes are n long: with a nil ptyFile the mode falls back to normal; a
\* key keyToBytes does not map writes nothing; otherwise
\* inst.ptyFile.Write(b) begins on the held PTY.
HandleInsertMode(n) ==
    /\ CoreReady /\ mode = "insert"
    /\ ContextBytes + n <= MaxTyped
    /\ IF ptyFile = Nil
          THEN mode' = "normal" /\ UNCHANGED <<coreWrite, writeLen>>
          ELSE IF n = 0
                  THEN UNCHANGED <<mode, coreWrite, writeLen>>
                  ELSE coreWrite' = ptyFile /\ writeLen' = n /\ UNCHANGED mode
    /\ UNCHANGED instVars /\ UNCHANGED resVars /\ UNCHANGED msgVars
    /\ UNCHANGED <<checkoutAgent, checkoutStep, autoStartPending>>
    /\ UNCHANGED <<launched, launch, startedWt, fwd, td, crashed>>
    /\ UNCHANGED <<layout, launchSize>> /\ UNCHANGED geoVars /\ UNCHANGED pureVars

\* The Write call of handleInsertMode returns, the length of the bytes is
\* added to inst.ContextBytes (model.go:1001) and the handler ends.
InsertWriteReturn ==
    /\ ~crashed
    /\ coreWrite # Nil
    /\ coreWrite' = Nil /\ writeLen' = 0
    /\ ContextBytes' = ContextBytes + writeLen
    /\ UNCHANGED instVars /\ UNCHANGED uiVars /\ UNCHANGED resVars /\ UNCHANGED msgVars
    /\ UNCHANGED <<launched, launch, startedWt, fwd, td, crashed>>
    /\ UNCHANGED <<layout, launchSize>> /\ UNCHANGED geoVars
    /\ UNCHANGED ctxVarsButBytes /\ UNCHANGED pureVarsButCtx

(***************************************************************************)
(* Checkout modal                                                          *)
(***************************************************************************)

\* advanceCheckout (model.go:1246-1260): the step the modal moves to from
\* fromStep, or "close" when nothing is left to ask.
AdvanceCheckout(fromStep) ==
    IF fromStep <= 2 /\ LastOutput # "" THEN 2
    ELSE IF fromStep <= 3 /\ Worktree # "" THEN 3
    ELSE -1

CheckoutGoto(step) ==
    /\ IF step = -1
          THEN checkoutAgent' = FALSE /\ checkoutStep' = 0 /\ mode' = "normal"
          ELSE checkoutStep' = step /\ UNCHANGED <<checkoutAgent, mode>>
    /\ UNCHANGED <<Status, cmd, ptyFile, emulator, LastOutput>>
    /\ UNCHANGED resVars /\ UNCHANGED msgVars
    /\ UNCHANGED <<autoStartPending, coreWrite, writeLen, launched, launch, startedWt,
                   fwd, td, crashed>>
    /\ UNCHANGED <<layout, launchSize>> /\ UNCHANGED geoVars
    /\ UNCHANGED <<restVars, startedBr>>

\* handleCheckoutXP (model.go:1208-1243): "1" offers the scroll step, the
\* other ratings and esc advance from step 2.
HandleCheckoutXP(great) ==
    /\ CoreReady /\ mode = "checkout" /\ checkoutAgent /\ checkoutStep = 0
    /\ CheckoutGoto(IF great THEN 1 ELSE AdvanceCheckout(2))
    /\ UNCHANGED <<Worktree, Branch, cleanups>>

\* handleCheckoutScroll (model.go:1262-1283), enter or esc.
HandleCheckoutScroll ==
    /\ CoreReady /\ mode = "checkout" /\ checkoutAgent /\ checkoutStep = 1
    /\ CheckoutGoto(AdvanceCheckout(2))
    /\ UNCHANGED <<Worktree, Branch, cleanups>>

\* handleCheckoutHandoff (model.go:1303-1344), enter or esc.
HandleCheckoutHandoff ==
    /\ CoreReady /\ mode = "checkout" /\ checkoutAgent /\ checkoutStep = 2
    /\ CheckoutGoto(AdvanceCheckout(3))
    /\ UNCHANGED <<Worktree, Branch, cleanups>>

\* handleCheckoutWorktree (model.go:1346-1372) on the instance and the
\* modal: merge and discard clear the bindings, keep leaves them; all three
\* close the modal.
CheckoutDisposition(action) ==
    /\ CoreReady /\ mode = "checkout" /\ checkoutAgent /\ checkoutStep = 3
    /\ Worktree' = IF action \in {"merge", "discard"} THEN "" ELSE Worktree
    /\ Branch' = IF action \in {"merge", "discard"} THEN "" ELSE Branch
    /\ CheckoutGoto(-1)

\* handleCheckoutWorktree as the session life cycle sees it; the
\* cleanupWorktree goroutine it starts is followed in SpecIsolation.
HandleCheckoutWorktree(action) ==
    /\ CheckoutDisposition(action)
    /\ UNCHANGED cleanups


(***************************************************************************)
(* PTY read command and the child process                                  *)
(***************************************************************************)

bgCoreVars == <<coreWrite, writeLen, launched, launch, startedWt>>

\* readAgentPTY's closure, ptf.Read returned data (part_003:188-195): the
\* child wrote to the PTY; the bytes go to the emulator and AgentOutputMsg
\* is returned.
ReadReturnsData(s) ==
    /\ ~crashed
    /\ reads[s] > 0
    /\ pty[s] = "open" /\ proc[s] = "alive"
    /\ reads' = [reads EXCEPT ![s] = @ - 1]
    /\ outMsgs' = outMsgs + 1
    /\ UNCHANGED instVars /\ UNCHANGED uiVars /\ UNCHANGED resVars
    /\ UNCHANGED bgCoreVars
    /\ UNCHANGED <<exitMsgs, fwd, td, crashed>>
    /\ UNCHANGED <<layout, launchSize>> /\ UNCHANGED geoVars /\ UNCHANGED pureVars

\* readAgentPTY's closure, ptf.Read failed (part_003:189-192): the child
\* is gone or the file was closed; AgentExitedMsg{Err} is returned.
ReadReturnsError(s) ==
    /\ ~crashed
    /\ reads[s] > 0
    /\ pty[s] = "closed" \/ proc[s] \in {"exited", "waited"}
    /\ reads' = [reads EXCEPT ![s] = @ - 1]
    /\ exitMsgs' = [exitMsgs EXCEPT ![s] = @ + 1]
    /\ UNCHANGED instVars /\ UNCHANGED uiVars /\ UNCHANGED resVars
    /\ UNCHANGED bgCoreVars
    /\ UNCHANGED <<outMsgs, fwd, td, crashed>>
    /\ UNCHANGED <<layout, launchSize>> /\ UNCHANGED geoVars /\ UNCHANGED pureVars

\* The child process terminates: by itself, after SIGTERM, or after its
\* terminal was closed.
ProcessExits(s) ==
    /\ ~crashed
    /\ proc[s] = "alive"
    /\ proc' = [proc EXCEPT ![s] = "exited"]
    /\ UNCHANGED instVars /\ UNCHANGED uiVars /\ UNCHANGED msgVars
    /\ UNCHANGED bgCoreVars
    /\ UNCHANGED <<em, pty, signalled, fwd, td, crashed>>
    /\ UNCHANGED <<layout, launchSize>> /\ UNCHANGED geoVars /\ UNCHANGED pureVars

(***************************************************************************)
(* forwardResponses goroutine (part_003:201-212)                           *)
(***************************************************************************)

fwdFrame ==
    /\ UNCHANGED instVars /\ UNCHANGED uiVars /\ UNCHANGED resVars
    /\ UNCHANGED msgVars /\ UNCHANGED bgCoreVars
    /\ UNCHANGED td
    /\ UNCHANGED <<layout, launchSize>> /\ UNCHANGED geoVars /\ UNCHANGED pureVars

\* Top of the loop: inst.emulator.Read(buf) is called on whatever emulator
\* the instance holds now.  A nil emulator is dereferenced and the program
\* panics.
ForwardCallRead(s) ==
    /\ ~crashed
    /\ fwd[s].pc = "top"
    /\ IF emulator = Nil
          THEN /\ crashed' = TRUE
               /\ fwd' = [fwd EXCEPT ![s].pc = "panic"]
          ELSE /\ fwd' = [fwd EXCEPT ![s] = [pc |-> "read", em |-> emulator, pty |-> Nil]]
               /\ UNCHANGED crashed
    /\ fwdFrame

\* Read returned a response emitted by the emulator (n > 0, err == nil).
ForwardReadReturnsData(s) ==
    /\ ~crashed
    /\ fwd[s].pc = "read"
    /\ em[fwd[s].em] = "open"
    /\ fwd' = [fwd EXCEPT ![s].pc = "data"]
    /\ UNCHANGED crashed
    /\ fwdFrame

\* Read returned an error because the emulator was closed: the loop returns.
ForwardReadReturnsError(s) ==
    /\ ~crashed
    /\ fwd[s].pc = "read"
    /\ em[fwd[s].em] = "closed"
    /\ fwd' = [fwd EXCEPT ![s] = [pc |-> "done", em |-> Nil, pty |-> Nil]]
    /\ UNCHANGED crashed
    /\ fwdFrame

\* n > 0 && inst.ptyFile != nil: the write begins on the PTY the instance
\* holds now; with a nil ptyFile the response is dropped.
ForwardWrite(s) ==
    /\ ~crashed
    /\ fwd[s].pc = "data"
    /\ fwd' = IF ptyFile # Nil
                 THEN [fwd EXCEPT ![s] = [pc |-> "write", em |-> Nil, pty |-> ptyFile]]
                 ELSE [fwd EXCEPT ![s] = [pc |-> "top", em |-> Nil, pty |-> Nil]]
    /\ UNCHANGED crashed
    /\ fwdFrame

\* inst.ptyFile.Write returned; err is nil, so the loop goes round.
ForwardWriteReturn(s) ==
    /\ ~crashed
    /\ fwd[s].pc = "write"
    /\ fwd' = [fwd EXCEPT ![s] = [pc |-> "top", em |-> Nil, pty |-> Nil]]
    /\ UNCHANGED crashed
    /\ fwdFrame

(***************************************************************************)
(* Cleanup goroutine of handleAgentExited (model.go:689-699)               *)
(***************************************************************************)

tdFrame ==
    /\ UNCHANGED instVars /\ UNCHANGED uiVars /\ UNCHANGED msgVars
    /\ UNCHANGED bgCoreVars
    /\ UNCHANGED <<signalled, fwd, crashed>>
    /\ UNCHANGED <<layout, launchSize>> /\ UNCHANGED geoVars /\ UNCHANGED pureVars

\* em.Close()
TeardownCloseEmulator(s) ==
    /\ ~crashed
    /\ td[s] = "closeEm"
    /\ em' = [em EXCEPT ![s] = "closed"]
    /\ td' = [td EXCEPT ![s] = TeardownNext("closeEm")]
    /\ UNCHANGED <<pty, proc>>
    /\ tdFrame

\* ptf.Close()
TeardownClosePty(s) ==
    /\ ~crashed
    /\ td[s] = "closePty"
    /\ pty' = [pty EXCEPT ![s] = "closed"]
    /\ td' = [td EXCEPT ![s] = TeardownNext("closePty")]
    /\ UNCHANGED <<em, proc>>
    /\ tdFrame

\* cmd.Wait() returns once the child has terminated.
TeardownWait(s) ==
    /\ ~crashed
    /\ td[s] = "wait"
    /\ proc[s] = "exited"
    /\ proc' = [proc EXCEPT ![s] = "waited"]
    /\ td' = [td EXCEPT ![s] = TeardownNext("wait")]
    /\ UNCHANGED <<em, pty>>
    /\ tdFrame

(***************************************************************************)
(* Terminal geometry: the core's resize paths and the delayedResize jiggle *)
(***************************************************************************)

\* Terminal sizes <<TermHeight, TermWidth>> recomputeLayout (model.go:398-419)
\* arrives at for the window sizes, panel states and parties of a run.
TermSizes == {StartSize, <<40, 100>>}

\* Every delayedResize command but self has seen another resize step.
NotAlone(self) ==
    [k \in Sessions |->
        IF k # self /\ jig[k].pc # "none" THEN [jig[k] EXCEPT !.alone = FALSE]
                                           ELSE jig[k]]

\* The resize loop over the active party's slots (model.go:551-559 and
\* resizeActivePartyAgents, model.go:857-870) up to and including
\* pty.Setsize for a running instance that holds both handles; the
\* emulator is resized by CoreResizeEmulator.  size is the terminal size
\* of the layout just recomputed.
ResizeAgents(size) ==
    IF Status = "running" /\ emulator # Nil /\ ptyFile # Nil
       THEN /\ ptySize' = [ptySize EXCEPT ![ptyFile] = size]
            /\ coreResize' = emulator
            /\ lastReq' = [lastReq EXCEPT ![ptyFile] = size]
            /\ jig' = NotAlone(Nil)
            /\ UNCHANGED emSize
       ELSE UNCHANGED geoVars

resizeFrame ==
    /\ UNCHANGED instVars /\ UNCHANGED resVars /\ UNCHANGED msgVars
    /\ UNCHANGED <<checkoutAgent, checkoutStep, autoStartPending>>
    /\ UNCHANGED <<coreWrite, writeLen, launched, launch, startedWt, fwd, td, crashed>>
    /\ UNCHANGED launchSize /\ UNCHANGED pureVars

\* handleResize (model.go:541-567) for a WindowSizeMsg after start-up.
HandleResize(size) ==
    /\ CoreReady
    /\ layout' = size
    /\ ResizeAgents(size)
    /\ UNCHANGED mode
    /\ resizeFrame

\* toggleGitPanel (model.go:1545-1576), key "g" in normal mode: the panel
\* changes the main pane width, the layout is recomputed and the agents
\* are resized.
ToggleGitPanel(size) ==
    /\ CoreReady /\ mode = "normal"
    /\ layout' = size
    /\ ResizeAgents(size)
    /\ UNCHANGED mode
    /\ resizeFrame

\* paletteActions, "Switch to <party>" (palette.go:103-116) for the party
\* of the instance, then popMode: layout recomputed, agents resized.
PaletteSwitchParty(size) ==
    /\ CoreReady /\ mode = "palette"
    /\ layout' = size
    /\ ResizeAgents(size)
    /\ mode' = PopMode
    /\ resizeFrame

\* inst.emulator.Resize(tw, th) of the resize loop, after which the handler
\* returns.
CoreResizeEmulator ==
    /\ ~crashed
    /\ coreResize # Nil
    /\ emSize' = [emSize EXCEPT ![coreResize] = layout]
    /\ coreResize' = Nil
    /\ UNCHANGED <<ptySize, jig, lastReq, layout, mode>>
    /\ resizeFrame

\* delayedResize's intermediate height, uint16(rows - 1) (part_003:323-327).
JiggleRows(rows) == (rows - 1) % 65536

\* The size the next step of a delayedResize command applies.
JiggleTarget(j) ==
    IF j.pc \in {"pty1", "em1"} THEN <<JiggleRows(j.size[1]), j.size[2]>>
                                ELSE j.size

jigFrame ==
    /\ UNCHANGED instVars /\ UNCHANGED uiVars /\ UNCHANGED resVars
    /\ UNCHANGED msgVars /\ UNCHANGED bgCoreVars
    /\ UNCHANGED <<fwd, td>>
    /\ UNCHANGED <<layout, launchSize, coreResize, lastReq>>
    /\ UNCHANGED pureVars

\* delayedResize (part_003:316-337) after the first sleep: with a nil
\* handle the command returns at once.
JiggleWake(s) ==
    /\ ~crashed
    /\ jig[s].pc = "sleep"
    /\ jig' = [jig EXCEPT ![s].pc =
                    IF ptyFile = Nil \/ emulator = Nil THEN "done" ELSE "pty1"]
    /\ UNCHANGED <<ptySize, emSize, crashed>>
    /\ jigFrame

\* pty.Setsize(inst.ptyFile, ...) of either half of the jiggle, on the PTY
\* the instance holds now; on a nil file the ioctl fails and the error is
\* dropped.
JiggleSetsize(s) ==
    /\ ~crashed
    /\ jig[s].pc \in {"pty1", "pty2"}
    /\ ptySize' = IF ptyFile # Nil
                     THEN [ptySize EXCEPT ![ptyFile] = JiggleTarget(jig[s])]
                     ELSE ptySize
    /\ jig' = [NotAlone(s) EXCEPT ![s].pc = IF jig[s].pc = "pty1" THEN "em1" ELSE "em2"]
    /\ UNCHANGED <<emSize, crashed>>
    /\ jigFrame

\* inst.emulator.Resize(...) of either half of the jiggle, on the emulator
\* the instance holds now; a nil emulator is dereferenced and the program
\* panics.  After the second half the command returns forceResizeMsg,
\* which Update ignores.
JiggleEmulatorResize(s) ==
    /\ ~crashed
    /\ jig[s].pc \in {"em1", "em2"}
    /\ IF emulator = Nil
          THEN /\ crashed' = TRUE
               /\ jig' = [jig EXCEPT ![s].pc = "panic"]
               /\ UNCHANGED emSize
          ELSE /\ emSize' = [emSize EXCEPT ![emulator] = JiggleTarget(jig[s])]
               /\ jig' = [NotAlone(s) EXCEPT ![s].pc =
                               IF jig[s].pc = "em1" THEN "pty2" ELSE "done"]
               /\ UNCHANGED crashed
    /\ UNCHANGED ptySize
    /\ jigFrame

(***************************************************************************)
(* Party deletion                                                          *)
(***************************************************************************)

\* doDeleteParty (model.go:1405-1427): a running instance of the party is
\* sent SIGTERM, cleanupPartyWorktrees is started on a goroutine and the
\* party leaves m.parties, so that agentByID no longer finds the instance;
\* the layout is recomputed for the party that is now the active one
\* (model.go:1424), which gives the terminal size size, and no agent is
\* resized.
DoDeleteParty(size) ==
    /\ signalled' = IF Status = "running" /\ cmd # Nil THEN Signal(cmd) ELSE signalled
    /\ partyCleanup' = [pc |-> "readdir", todo |-> <<>>]
    /\ partyDeleted' = TRUE
    /\ deleteConfirm' = FALSE
    /\ layout' = size

deleteFrame ==
    /\ UNCHANGED instVars /\ UNCHANGED uiVars /\ UNCHANGED msgVars
    /\ UNCHANGED <<coreWrite, writeLen, launched, launch, startedWt, em, pty, proc, fwd, td, crashed>>
    /\ UNCHANGED launchSize /\ UNCHANGED geoVars
    /\ UNCHANGED <<equipVars, composeVars, worktreeVars, partyVars, ctxVars, rosterVars>>
    /\ UNCHANGED <<Branch, startedBr, cleanups>>
    /\ UNCHANGED <<wtReg, index, merged, setupPc, gitLog, workDir>>

\* handleLeftPanelKeys, case "d" (model.go:841-842), deleteParty
\* (model.go:1387-1403): another party exists; with a running instance in
\* a slot the confirmation is asked for, otherwise the party is deleted.
HandleLeftPanelKeyD(size) ==
    /\ CoreReady /\ mode = "normal"
    /\ ~deleteConfirm /\ ~partyDeleted
    /\ IF Status = "running"
          THEN /\ deleteConfirm' = TRUE
               /\ UNCHANGED <<signalled, partyCleanup, partyDeleted, layout>>
          ELSE DoDeleteParty(size)
    /\ deleteFrame

\* handleDeleteConfirm (model.go:1429-1437), which Update gives every key
\* while m.deleteConfirm is set (model.go:515-517).
HandleDeleteConfirm(yes, size) ==
    /\ CoreReady
    /\ deleteConfirm /\ ~partyDeleted
    /\ IF yes
          THEN DoDeleteParty(size)
          ELSE /\ deleteConfirm' = FALSE
               /\ UNCHANGED <<signalled, partyCleanup, partyDeleted, layout>>
    /\ deleteFrame

(***************************************************************************)
(* Specification                                                           *)
(***************************************************************************)

\* The project is a git repository in which setupWorktree succeeds, so
\* every AgentStartedMsg carries a worktree binding.
LaunchWorktrees == {"wt"}

\* Launcher command, PTY read command, child process and cleanup goroutine.
Workers ==
    \/ \E s \in Sessions, wt \in LaunchWorktrees : StartAgentProcessOk(s, wt)
    \/ \E s \in Sessions : StartAgentProcessFail(s)
    \/ \E s \in Sessions : ReadReturnsData(s)
    \/ \E s \in Sessions : ReadReturnsError(s)
    \/ \E s \in Sessions : ProcessExits(s)
    \/ \E s \in Sessions : TeardownCloseEmulator(s)
    \/ \E s \in Sessions : TeardownClosePty(s)
    \/ \E s \in Sessions : TeardownWait(s)

\* The three agent messages.
AgentMessages ==
    \/ \E s \in Sessions : HandleAgentStarted(s)
    \/ \E n \in BytesReads, sc \in CtxScreens :
          OutputsBelow(MaxReads) /\ HandleAgentOutput(n, sc)
    \/ \E o \in Origins : HandleAgentExited(o)

\* The keys of the checkout modal that follows an exit.
CheckoutKeys ==
    \/ \E great \in BOOLEAN : HandleCheckoutXP(great)
    \/ HandleCheckoutScroll
    \/ HandleCheckoutHandoff
    \/ \E action \in {"merge", "keep", "discard"} : HandleCheckoutWorktree(action)

Messages == AgentMessages \/ CheckoutKeys

\* Update gives every key to handleDeleteConfirm while m.deleteConfirm is
\* set (model.go:515-517).
KeysHandled == ~deleteConfirm

\* The keys that act on the instance reach it while its party is the one
\* shown, which a deleted party no longer is.
KeysToInstance == ~deleteConfirm /\ ~partyDeleted

\* Session life cycle: every start and stop entry point of the UI, the
\* agent messages, the deletion of the party and the workers.  The
\* forwarding goroutine is started by handleAgentStarted but its steps,
\* which touch no life-cycle state, are left to SpecForward; the steps of
\* cleanupPartyWorktrees are left to SpecIsolation.
Next ==
    \/ HandleResizeAutoStart
    \/ KeysToInstance /\ HandleMainPaneKeyS
    \/ KeysToInstance /\ HandlePartyBarKeyS
    \/ KeysToInstance /\ HandleCharSheetKeyS
    \/ KeysToInstance /\ PaletteStart
    \/ KeysToInstance /\ HandleMainPaneKeyX
    \/ KeysToInstance /\ HandleCharSheetKeyX
    \/ KeysToInstance /\ PaletteStop
    \/ KeysHandled /\ OpenPalette
    \/ KeysToInstance /\ OpenCharSheet
    \/ KeysHandled /\ EscapeMode
    \/ AgentMessages
    \/ KeysHandled /\ CheckoutKeys
    \/ \E size \in TermSizes : HandleLeftPanelKeyD(size)
    \/ \E yes \in BOOLEAN, size \in TermSizes : HandleDeleteConfirm(yes, size)
    \/ Workers

Spec == Init /\ [][Next]_vars

\* The forwarding goroutine and insert mode on top of the life cycle driven
\* from the main pane ("s", "x", "i", esc).
NextForward ==
    \/ HandleResizeAutoStart
    \/ HandleMainPaneKeyS
    \/ HandleMainPaneKeyX
    \/ EnterInsert
    \/ EscapeMode
    \/ \E n \in KeyLens : HandleInsertMode(n)
    \/ InsertWriteReturn
    \/ Messages
    \/ Workers
    \/ \E s \in Sessions : ForwardCallRead(s)
    \/ \E s \in Sessions : ForwardReadReturnsData(s)
    \/ \E s \in Sessions : ForwardReadReturnsError(s)
    \/ \E s \in Sessions : ForwardWrite(s)
    \/ \E s \in Sessions : ForwardWriteReturn(s)

SpecForward == Init /\ [][NextForward]_vars

\* Terminal geometry of sessions started automatically or from the main
\* pane: the core's resize paths and the delayedResize commands.
NextResize ==
    \/ HandleResizeAutoStart
    \/ HandleMainPaneKeyS
    \/ OpenPalette
    \/ EscapeMode
    \/ \E s \in Sessions, wt \in LaunchWorktrees : StartAgentProcessOk(s, wt)
    \/ \E s \in Sessions : HandleAgentStarted(s)
    \/ \E size \in TermSizes : HandleResize(size)
    \/ \E size \in TermSizes : ToggleGitPanel(size)
    \/ \E size \in TermSizes : PaletteSwitchParty(size)
    \/ CoreResizeEmulator
    \/ \E s \in Sessions : JiggleWake(s)
    \/ \E s \in Sessions : JiggleSetsize(s)
    \/ \E s \in Sessions : JiggleEmulatorResize(s)

SpecResize == Init /\ [][NextResize]_vars

(***************************************************************************)
(* Skill loadout: CanEquip, ToggleEquip and the character sheet            *)
(***************************************************************************)

\* Number of skills in cfg.Skills; their IDs are 1..NumSkills.
NumSkills == 8
MaxEquipSlots == 6

\* AllSkillIDs (model.go:1841-1848), as a set.
SkillIDs == 1..NumSkills

\* InnateSkills lists of the configured classes.
EquipClasses == {Class(<<1>>)}

\* Equipped lists a party file or an agent profile gives an instance:
\* none, one skill, two skills, a skill that is innate for the class, the
\* same skill twice.
InitialLoadouts == {<<>>, <<2>>, <<3, 2>>, <<1>>, <<2, 2>>}

\* isInnate (model.go:1783-1790).
IsInnate(class, skillID) ==
    \E i \in 1..Len(class.InnateSkills) : class.InnateSkills[i] = skillID

\* skillID occurs in the list.
Has(list, skillID) == \E i \in 1..Len(list) : list[i] = skillID

\* CanEquip (model.go:1793-1807).
CanEquip(class, equipped, skillID) ==
    /\ class # NoClass
    /\ ~IsInnate(class, skillID)
    /\ ~Has(equipped, skillID)
    /\ Len(equipped) < MaxEquipSlots

\* A removal that is off by one: it drops the element before position i.
RemoveBefore(list, i) == SubSeq(list, 1, i - 2) \o SubSeq(list, i, Len(list))

\* append(list[:i], list[i+1:]...) for the element at position i (from 1).
RemoveAt(list, i) == SubSeq(list, 1, i - 1) \o SubSeq(list, i + 1, Len(list))

\* ToggleEquip (model.go:1810-1820): the first occurrence is removed; a
\* skill that is not equipped is appended when CanEquip allows it.
ToggleEquip(class, equipped, skillID) ==
    IF Has(equipped, skillID)
       THEN RemoveAt(equipped, CHOOSE i \in 1..Len(equipped) :
                                 /\ equipped[i] = skillID
                                 /\ \A k \in 1..(i - 1) : equipped[k] # skillID)
       ELSE IF CanEquip(class, equipped, skillID)
               THEN Append(equipped, skillID)
               ELSE equipped

\* The skills of 1..n that are neither innate nor equipped, in order.
RECURSIVE AvailableUpTo(_, _, _)
AvailableUpTo(class, equipped, n) ==
    IF n = 0 THEN <<>>
    ELSE LET rest == AvailableUpTo(class, equipped, n - 1) IN
         IF (class # NoClass /\ IsInnate(class, n)) \/ Has(equipped, n)
            THEN rest
            ELSE Append(rest, n)

\* availableSkills (model.go:1164-1184).
AvailableSkills(class, equipped) == AvailableUpTo(class, equipped, NumSkills)

\* len(classCfg.InnateSkills), 0 for a nil class (model.go:1146-1151).
InnateCount(class) == IF class = NoClass THEN 0 ELSE Len(class.InnateSkills)

equipFrame ==
    /\ UNCHANGED agentVars /\ UNCHANGED <<composeVars, worktreeVars>>
    /\ UNCHANGED <<gitVars, partyVars, ctxVars, rosterVars, Branch, startedBr, cleanups>>

\* The array behind the list after append(list[:i], list[i+1:]...) for the
\* element at position i of the n the list holds: the elements behind it
\* move down by one in place and the last stays where it was.
ArrayAfterRemove(array, n, i) ==
    [k \in 1..Len(array) |->
        IF k >= i /\ k < n THEN array[k + 1] ELSE array[k]]

\* The capacity append gives a new array when the old one is full.
GrowCap(cap) == IF cap = 0 THEN 1 ELSE 2 * cap

\* The array behind the list after append(list, id) to the n elements the
\* list holds: written behind them while the array has room, else a new
\* array with the elements copied.
ArrayAfterAppend(array, n, id) ==
    IF n < Len(array)
       THEN [array EXCEPT ![n + 1] = id]
       ELSE [k \in 1..GrowCap(Len(array)) |->
                IF k <= n THEN array[k] ELSE IF k = n + 1 THEN id ELSE NoSkill]

\* The array behind the list ToggleEquip returns (model.go:1810-1820).
ToggleArray(class, array, equipped, skillID) ==
    IF Has(equipped, skillID)
       THEN ArrayAfterRemove(array, Len(equipped),
                CHOOSE i \in 1..Len(equipped) :
                    /\ equipped[i] = skillID
                    /\ \A k \in 1..(i - 1) : equipped[k] # skillID)
       ELSE IF CanEquip(class, equipped, skillID)
               THEN ArrayAfterAppend(array, Len(equipped), skillID)
               ELSE array

\* inst.Equipped now reads array: def.DefaultEquipped, and every instance
\* built from it (model.go:1492-1495), reads its own length of the same
\* array until append has moved inst.Equipped to a new one.
StoreArray(array) ==
    IF Len(array) = Len(eqArray)
       THEN /\ eqArray' = array
            /\ DefaultEquipped' = SubSeq(array, 1, Len(DefaultEquipped))
            /\ UNCHANGED eqShared
       ELSE /\ eqArray' = <<>>
            /\ eqShared' = FALSE
            /\ UNCHANGED DefaultEquipped

\* A ToggleEquip call with skillID on the instance's loadout.  A call that
\* equips starts a pair; the same skill toggled next completes it.
ToggleEquipped(skillID) ==
    /\ Equipped' = ToggleEquip(classCfg, Equipped, skillID)
    /\ IF eqShared
          THEN StoreArray(ToggleArray(classCfg, eqArray, Equipped, skillID))
          ELSE UNCHANGED <<eqArray, DefaultEquipped, eqShared>>
    /\ IF eqRun = 1 /\ skillID = eqSkill
          THEN eqRun' = 2 /\ eqSkill' = NoSkill /\ UNCHANGED eqBase
          ELSE IF CanEquip(classCfg, Equipped, skillID)
                  THEN eqBase' = Equipped /\ eqSkill' = skillID /\ eqRun' = 1
                  ELSE eqBase' = <<>> /\ eqSkill' = NoSkill /\ eqRun' = 0
    /\ UNCHANGED classCfg
    /\ equipFrame

\* ToggleEquip applied to the loadout with any skill ID of the configuration.
ToggleEquipCall(skillID) == ToggleEquipped(skillID)

\* charSheetToggle, available section (model.go:1156-1160): the skill under
\* the cursor is passed to ToggleEquip.
CharSheetEquip(csCursor) ==
    /\ csCursor < Len(AvailableSkills(classCfg, Equipped))
    /\ ToggleEquipped(AvailableSkills(classCfg, Equipped)[csCursor + 1])

\* charSheetToggle, equipped section (model.go:1146-1155): the equipped
\* skill under the cursor, which counts the innate rows first, is removed.
CharSheetUnequip(csCursor) ==
    /\ csCursor - InnateCount(classCfg) >= 0
    /\ csCursor - InnateCount(classCfg) < Len(Equipped)
    /\ Equipped' = RemoveAt(Equipped, csCursor - InnateCount(classCfg) + 1)
    /\ IF eqShared
          THEN StoreArray(ArrayAfterRemove(eqArray, Len(Equipped),
                                           csCursor - InnateCount(classCfg) + 1))
          ELSE UNCHANGED <<eqArray, DefaultEquipped, eqShared>>
    /\ eqBase' = <<>> /\ eqSkill' = NoSkill /\ eqRun' = 0
    /\ UNCHANGED classCfg
    /\ equipFrame

\* cap of the list extractSkills builds with n appends (avatar.go:440-461).
RECURSIVE CapAfter(_)
CapAfter(n) ==
    IF n = 0 THEN 0
    ELSE IF n <= CapAfter(n - 1) THEN CapAfter(n - 1) ELSE GrowCap(CapAfter(n - 1))

\* The array of a list built with appends.
ArrayOf(list) ==
    [k \in 1..CapAfter(Len(list)) |-> IF k <= Len(list) THEN list[k] ELSE NoSkill]

\* buildInstance (model.go:1475-1511) for a loadout of the party file, or
\* for an agent profile without skills when the party file gives none: the
\* class of the agent definition and the equipped list of the party slot;
\* the list is not checked against the class.  A list read from the party
\* file has an array of its own, which nothing else reads; the empty list
\* is the nil list of the profile.
InitEquip ==
    /\ InitAgent /\ InitRosterIdle /\ InitCtxIdle /\ InitComposeIdle /\ InitWorktreeIdle /\ InitGitIdle
    /\ InitPartyIdle
    /\ classCfg \in EquipClasses \cup {NoClass}
    /\ Equipped \in InitialLoadouts
    /\ eqShared = (Equipped = <<>>)
    /\ DefaultEquipped = <<>>
    /\ eqArray = <<>>
    /\ eqBase = <<>> /\ eqSkill = NoSkill /\ eqRun = 0

\* The cursor of either section runs over the charSheetSectionLen rows of
\* the section (model.go:1130-1142, 1068-1080).
NextEquip ==
    \/ \E skillID \in SkillIDs : ToggleEquipCall(skillID)
    \/ \E csCursor \in 0..(Len(AvailableSkills(classCfg, Equipped)) - 1) :
           CharSheetEquip(csCursor)
    \/ \E csCursor \in 0..(InnateCount(classCfg) + MaxEquipSlots - 1) :
           CharSheetUnequip(csCursor)

SpecEquip == InitEquip /\ [][NextEquip]_vars

\* Skills the loadout of an instance built from its profile is toggled
\* with.
NumSharedSkills == 4
SharedSkillIDs == 1..NumSharedSkills

\* The skills section of an agent profile (avatar.go:387): one skill, two,
\* three.
ProfileLoadouts == {<<2>>, <<3, 2>>, <<2, 3, 4>>}

\* buildInstance (model.go:1492-1495) when the party file gives the slot no
\* equipped list: inst.Equipped is def.DefaultEquipped itself, the list
\* extractSkills built, and reads the same array.
InitEquipShared ==
    /\ InitAgent /\ InitRosterIdle /\ InitCtxIdle /\ InitComposeIdle /\ InitWorktreeIdle /\ InitGitIdle
    /\ InitPartyIdle
    /\ classCfg \in EquipClasses \cup {NoClass}
    /\ DefaultEquipped \in ProfileLoadouts
    /\ Equipped = DefaultEquipped
    /\ eqArray = ArrayOf(DefaultEquipped)
    /\ eqShared = TRUE
    /\ eqBase = <<>> /\ eqSkill = NoSkill /\ eqRun = 0

\* The character sheet of such an instance, used with the first skills of
\* the configuration.
NextEquipShared ==
    \/ \E skillID \in SharedSkillIDs : ToggleEquipCall(skillID)
    \/ \E csCursor \in 0..(Len(AvailableSkills(classCfg, Equipped)) - 1) :
           /\ AvailableSkills(classCfg, Equipped)[csCursor + 1] \in SharedSkillIDs
           /\ CharSheetEquip(csCursor)
    \/ \E csCursor \in 0..(InnateCount(classCfg) + MaxEquipSlots - 1) :
           CharSheetUnequip(csCursor)

SpecEquipShared == InitEquipShared /\ [][NextEquipShared]_vars

(***************************************************************************)
(* Prompt composition: ComposePrompt and estimateTokens                    *)
(***************************************************************************)

\* Skill IDs passed to ComposePrompt are 1..NumCompSkills.
NumCompSkills == 4
\* Longest InnateSkills list of a class.
MaxCompInnate == 2
\* Longest equipped list passed to ComposePrompt.
MaxCompEquipped == 3

CompSkillIDs == 1..NumCompSkills

\* cfg.Skills: the number of words (strings.Fields) of the Content of the
\* skills 1, 2 and 3; an ID beyond them has no entry in skillMap.
CfgSkillWords == <<5, 10, 3>>

\* skillMap[sid] != nil (model.go:1702-1705, 1726-1729).
SkillKnown(sid) == sid \in DOMAIN CfgSkillWords

\* Sequences over S of length at most n.
SeqsUpTo(S, n) == UNION {[1..k -> S] : k \in 0..n}

\* estimateTokens (model.go:1825-1828): int(float64(words) * 1.3), the
\* conversion to int cutting the fraction off.
EstimateTokens(words) == (words * 13) \div 10

\* One SkillSlot per element of list, in order.
SlotsOf(list, innate) ==
    [i \in 1..Len(list) |->
        [SkillID |-> list[i], IsInnate |-> innate,
         Tokens |-> EstimateTokens(CfgSkillWords[list[i]])]]

\* The "## Skill:" section of each slot.
SectionsOf(slots) ==
    [i \in 1..Len(slots) |->
        [kind |-> IF slots[i].IsInnate THEN "innate skill" ELSE "skill",
         id |-> slots[i].SkillID]]

\* An equipped loop that does not skip the innate skills.
EquippedSlotsUnfiltered(class, equipped) ==
    SlotsOf(SelectSeq(equipped, SkillKnown), FALSE)

\* The loop over classCfg.InnateSkills (model.go:1725-1737): skills without
\* an entry are skipped.
InnateSlots(class) == SlotsOf(SelectSeq(class.InnateSkills, SkillKnown), TRUE)

\* The loop over equipped (model.go:1740-1755): innate skills and skills
\* without an entry are skipped.
EquippedSlots(class, equipped) ==
    LET wanted(sid) == ~IsInnate(class, sid) /\ SkillKnown(sid)
    IN  SlotsOf(SelectSeq(equipped, wanted), FALSE)

RECURSIVE SumTokens(_)
SumTokens(slots) ==
    IF slots = <<>> THEN 0 ELSE Head(slots).Tokens + SumTokens(Tail(slots))

\* ComposePrompt (model.go:1696-1768).  Prompt is the list of the sections
\* joined into the prompt text; passives are not used by the function.
ComposePrompt(class, equipped, directives) ==
    IF class = NoClass
       THEN [Prompt |-> <<>>, Slots |-> <<>>, TotalTokens |-> 0]
       ELSE LET slots == InnateSlots(class) \o EquippedSlots(class, equipped)
            IN  [Prompt |-> <<[kind |-> "role", id |-> NoSkill]>>
                            \o (IF directives
                                   THEN <<[kind |-> "agent profile", id |-> NoSkill]>>
                                   ELSE <<>>)
                            \o SectionsOf(slots),
                 Slots |-> slots,
                 TotalTokens |-> SumTokens(slots)]

\* The arguments of the call.
InitCompose ==
    /\ InitAgent /\ InitRosterIdle /\ InitCtxIdle /\ InitEquipIdle /\ InitWorktreeIdle /\ InitGitIdle
    /\ InitPartyIdle
    /\ compClass \in {NoClass} \cup
                     {Class(innate) : innate \in SeqsUpTo(CompSkillIDs, MaxCompInnate)}
    /\ compEquipped \in SeqsUpTo(CompSkillIDs, MaxCompEquipped)
    /\ compDirectives \in BOOLEAN
    /\ composed = NotComposed

\* The call, as made by startAgentProcess (part_003:107) and by the
\* character sheet (charsheet.go:31).
Compose ==
    /\ composed = NotComposed
    /\ composed' = <<ComposePrompt(compClass, compEquipped, compDirectives)>>
    /\ UNCHANGED <<compClass, compEquipped, compDirectives>>
    /\ UNCHANGED agentVars /\ UNCHANGED <<equipVars, worktreeVars>>
    /\ UNCHANGED <<gitVars, partyVars, ctxVars, rosterVars, Branch, startedBr, cleanups>>

NextCompose == Compose

SpecCompose == InitCompose /\ [][NextCompose]_vars

(***************************************************************************)
(* Git worktree isolation: setupWorktree and cleanupWorktree               *)
(***************************************************************************)

\* Number of setupWorktree / cleanupWorktree calls in one run.
MaxCalls == 3

WtParties == {"alpha", "beta"}
WtAgents == {"Ada", "ada", "Bo"}

\* strings.ToLower on the agent names.
ToLower(name) ==
    CASE name = "Ada" -> "ada"
      [] name = "Bo" -> "bo"
      [] OTHER -> name

\* filepath.Join(worktreesDir(), partyName, strings.ToLower(agentName))
\* (part_003:232), as the path elements below worktreesDir().
WtPath(party, agent) == <<party, ToLower(agent)>>

\* fmt.Sprintf("forge/%s/%s", partyName, strings.ToLower(agentName))
\* (part_003:231).
WtBranch(party, agent) == <<"forge", party, ToLower(agent)>>

WtPaths == {WtPath(party, agent) : party \in WtParties, agent \in WtAgents}

\* The party and the agent of the instance, and the worktree path and the
\* branch setupWorktree computes for them (part_003:231-232).
IsoPair == <<"alpha", "Ada">>
KeyPath == WtPath(IsoPair[1], IsoPair[2])
KeyBranch == WtBranch(IsoPair[1], IsoPair[2])

\* The worktree of another agent of the same party, left by an earlier run.
OtherPath == WtPath(IsoPair[1], "Bo")

\* The directories below filepath.Join(worktreesDir(), partyName).
PartyPaths(party) == {path \in WtPaths : path[1] = party}

\* fmt.Sprintf("forge/%s/%s", partyName, e.Name()) (part_003:286).
BranchOf(path) == <<"forge", path[1], path[2]>>

\* The worktree path a forge branch is checked out at.
PathOf(branch) == <<branch[2], branch[3]>>

\* The repository and the worktree directories as one value.
GitState == [fs |-> wtFs, reg |-> wtReg, br |-> branches, ix |-> index, mg |-> merged]

SetGit(g) ==
    /\ wtFs' = g.fs /\ wtReg' = g.reg /\ branches' = g.br
    /\ index' = g.ix /\ merged' = g.mg

\* "git worktree remove --force <path>": works on a registered worktree
\* whose directory is intact or missing, and removes directory and
\* registration; anything else is an error and changes nothing.
GitWorktreeRemove(g, path) ==
    IF path \in g.reg /\ g.fs[path] # "stale"
       THEN [g EXCEPT !.fs[path] = "absent", !.reg = @ \ {path}]
       ELSE g

\* os.RemoveAll(path).
RemoveAll(g, path) == [g EXCEPT !.fs[path] = "absent"]

\* "git worktree prune": drops the registrations whose directory is not an
\* intact worktree any more.
GitWorktreePrune(g) == [g EXCEPT !.reg = {path \in @ : g.fs[path] = "valid"}]

\* "git worktree add" needs a path that is neither registered nor present.
CanAdd(g, path) == path \notin g.reg /\ g.fs[path] = "absent"

\* "git worktree add <path> <branch>" succeeds on an existing branch (a
\* forge branch is checked out nowhere but at its own path).
GitWorktreeAddOk(g, path, branch) == branch \in g.br /\ CanAdd(g, path)

GitWorktreeAdd(g, path, branch) ==
    IF GitWorktreeAddOk(g, path, branch)
       THEN [g EXCEPT !.fs[path] = "valid", !.reg = @ \cup {path}]
       ELSE g

\* "git worktree add -b <branch> <path>" succeeds when the branch does not
\* exist yet; the new branch starts at the base and carries no work.
GitWorktreeAddNewOk(g, path, branch) == branch \notin g.br /\ CanAdd(g, path)

GitWorktreeAddNew(g, path, branch) ==
    IF GitWorktreeAddNewOk(g, path, branch)
       THEN [g EXCEPT !.fs[path] = "valid", !.reg = @ \cup {path},
                      !.br = @ \cup {branch},
                      !.mg = IF branch = KeyBranch THEN FALSE ELSE @]
       ELSE g

\* "git branch -D <branch>": refused for a branch that does not exist or
\* is checked out in a registered worktree.
GitBranchDelete(g, branch) ==
    IF branch \in g.br /\ PathOf(branch) \notin g.reg
       THEN [g EXCEPT !.br = @ \ {branch}]
       ELSE g

\* What the branch holds when it is merged: work that applies to the
\* base, work that conflicts with it, or no commit beyond the base (the
\* agent committed nothing in the worktree).
MergeOutcomes == {"staged", "conflict", "uptodate"}

\* "git merge --squash <branch>" in projectDir: refused when the branch
\* does not exist or the index is not clean; otherwise the branch's work is
\* staged, or left as unmerged paths when it conflicts with the base; a
\* branch without work is "Already up to date" and the index stays clean.
GitMergeSquash(g, branch, outcome) ==
    IF branch \in g.br /\ g.ix = "clean"
       THEN [g EXCEPT !.ix = IF outcome = "uptodate" THEN "clean" ELSE outcome]
       ELSE g

\* "git commit --no-edit -m ...": commits what is staged; fails on unmerged
\* paths and when there is nothing to commit.
GitCommit(g) ==
    IF g.ix = "staged" THEN [g EXCEPT !.ix = "clean", !.mg = TRUE] ELSE g

\* What an earlier run left of the instance's worktree: the directory, its
\* registration in the repository and the branch.
KeyLefts ==
    { [fs |-> "absent", reg |-> FALSE, br |-> FALSE],
      [fs |-> "absent", reg |-> FALSE, br |-> TRUE],
      [fs |-> "valid",  reg |-> TRUE,  br |-> TRUE],
      [fs |-> "stale",  reg |-> FALSE, br |-> TRUE],
      [fs |-> "stale",  reg |-> TRUE,  br |-> TRUE],
      [fs |-> "absent", reg |-> TRUE,  br |-> TRUE] }

\* A setupWorktree that never takes the directory it finds.
WtReusableNever(path) == FALSE

\* os.Stat(wtPath) succeeds and git rev-parse inside it does too
\* (part_003:235-238).
WtReusable(path) == wtFs[path] = "valid"

wtFrame ==
    /\ UNCHANGED agentVars /\ UNCHANGED <<equipVars, composeVars>>
    /\ UNCHANGED <<setupPc, gitLog, workDir, deleteConfirm, partyDeleted, partyCleanup>>
    /\ UNCHANGED <<partyVars, ctxVars, rosterVars, Branch, startedBr, cleanups>>

\* setupWorktree (part_003:219-229) on a project that is not a git
\* repository: the error is returned before anything is touched.
SetupWorktreeNotRepo ==
    /\ Len(wtLog) < MaxCalls
    /\ ~isRepo
    /\ wtLog' = Append(wtLog, [op |-> "setup", ok |-> FALSE, path |-> <<>>,
                                branch |-> <<>>, created |-> FALSE])
    /\ UNCHANGED <<wtPair, isRepo, wtFs, branches, wtReg, index, merged>>
    /\ wtFrame

\* setupWorktree (part_003:231-238) finding a valid worktree at the path:
\* path and branch are returned, nothing is created.
SetupWorktreeReuse ==
    /\ Len(wtLog) < MaxCalls
    /\ isRepo
    /\ WtReusable(WtPath(wtPair[1], wtPair[2]))
    /\ wtLog' = Append(wtLog, [op |-> "setup", ok |-> TRUE,
                                path |-> WtPath(wtPair[1], wtPair[2]),
                                branch |-> WtBranch(wtPair[1], wtPair[2]),
                                created |-> FALSE])
    /\ UNCHANGED <<wtPair, isRepo, wtFs, branches, wtReg, index, merged>>
    /\ wtFrame

\* The repository after part_003:239-245: "git worktree remove --force"
\* and os.RemoveAll on a directory that is no valid worktree, then
\* "git worktree prune".
GitAfterStale(g, path) ==
    GitWorktreePrune(IF g.fs[path] # "absent"
                        THEN RemoveAll(GitWorktreeRemove(g, path), path)
                        ELSE g)

\* The repository after part_003:249-254: "git worktree add" on the
\* existing branch, and with -b when that failed.
GitAfterAdd(g, path, branch) ==
    IF GitWorktreeAddOk(g, path, branch)
       THEN GitWorktreeAdd(g, path, branch)
       ELSE GitWorktreeAddNew(g, path, branch)

\* setupWorktree (part_003:239-256) with no valid worktree at the path: a
\* stale directory is removed, then "git worktree add" runs, on the
\* existing branch or with -b on a new one.  addOk is whether either form
\* of the command succeeded.
SetupWorktreeAdd(addOk) ==
    /\ Len(wtLog) < MaxCalls
    /\ isRepo
    /\ ~WtReusable(WtPath(wtPair[1], wtPair[2]))
    /\ LET path == WtPath(wtPair[1], wtPair[2])
           branch == WtBranch(wtPair[1], wtPair[2])
       IN  IF addOk
              THEN /\ SetGit(GitAfterAdd(GitAfterStale(GitState, path), path, branch))
                   /\ wtLog' = Append(wtLog, [op |-> "setup", ok |-> TRUE,
                                               path |-> path, branch |-> branch,
                                               created |-> TRUE])
              ELSE /\ SetGit(GitAfterStale(GitState, path))
                   /\ wtLog' = Append(wtLog, [op |-> "setup", ok |-> FALSE,
                                               path |-> <<>>, branch |-> <<>>,
                                               created |-> FALSE])
    /\ UNCHANGED <<wtPair, isRepo>>
    /\ wtFrame

\* The repository after cleanupWorktree (part_003:261-274): merge runs
\* "git merge --squash" and "git commit", merge and discard run
\* "git worktree remove --force" and "git branch -D", each whatever the
\* command before it returned; keep runs nothing.
GitAfterCleanup(g, path, branch, action, outcome) ==
    CASE action = "merge" ->
            GitBranchDelete(
                GitWorktreeRemove(GitCommit(GitMergeSquash(g, branch, outcome)), path),
                branch)
      [] action = "discard" ->
            GitBranchDelete(GitWorktreeRemove(g, path), branch)
      [] OTHER -> g

\* cleanupWorktree (part_003:261-274) on the pair's worktree.
CleanupWorktree(action, outcome) ==
    /\ Len(wtLog) < MaxCalls
    /\ isRepo
    /\ SetGit(GitAfterCleanup(GitState, WtPath(wtPair[1], wtPair[2]),
                              WtBranch(wtPair[1], wtPair[2]), action, outcome))
    /\ wtLog' = Append(wtLog, [op |-> action, ok |-> TRUE, path |-> <<>>,
                                branch |-> <<>>, created |-> FALSE])
    /\ UNCHANGED <<wtPair, isRepo>>
    /\ wtFrame

\* A party and an agent, a project that is a git repository or not, and
\* what an earlier run left at the pair's worktree path, of its
\* registration and of its branch.
InitWorktree ==
    /\ InitAgent /\ InitRosterIdle /\ InitCtxIdle /\ InitEquipIdle /\ InitComposeIdle
    /\ InitGoroutinesIdle /\ InitPartyIdle
    /\ wtPair \in WtParties \X WtAgents
    /\ isRepo \in BOOLEAN
    /\ \E left \in KeyLefts :
          /\ wtFs = [path \in WtPaths |->
                        IF path = WtPath(wtPair[1], wtPair[2]) THEN left.fs ELSE "absent"]
          /\ wtReg = IF left.reg THEN {WtPath(wtPair[1], wtPair[2])} ELSE {}
          /\ branches = IF left.br THEN {WtBranch(wtPair[1], wtPair[2])} ELSE {}
    /\ index = "clean" /\ merged = FALSE
    /\ wtLog = <<>>

NextWorktree ==
    \/ SetupWorktreeNotRepo
    \/ SetupWorktreeReuse
    \/ \E addOk \in BOOLEAN : SetupWorktreeAdd(addOk)
    \/ \E action \in {"merge", "keep", "discard"}, outcome \in MergeOutcomes :
           CleanupWorktree(action, outcome)

SpecWorktree == InitWorktree /\ [][NextWorktree]_vars

(***************************************************************************)
(* Worktree isolation in the running program: the launcher inside          *)
(* setupWorktree, the cleanupWorktree goroutines of the checkout modal and *)
(* the cleanupPartyWorktrees goroutine of a party deletion, each running   *)
(* its git commands one at a time on the repository of the project.        *)
(***************************************************************************)

\* What the goroutines below leave alone.
gitFrame ==
    /\ UNCHANGED agentVars /\ UNCHANGED <<equipVars, composeVars, partyVars, ctxVars, rosterVars>>
    /\ UNCHANGED <<wtPair, isRepo, wtLog>>
    /\ UNCHANGED <<Branch, startedBr, deleteConfirm, partyDeleted>>

\* A launcher that takes the path setupWorktree returned whatever the error.
WorkDirIgnoringError(pc, dir) ==
    IF pc \in {"ok", "err"} THEN "wt" ELSE dir

\* part_003:131-137: workDir is lc.ProjectDir unless setupWorktree returned
\* without error, and then the worktree path; dir is the value so far.
WorkDirAfter(pc, dir) ==
    CASE pc = "ok" -> "wt"
      [] pc = "err" -> "project"
      [] OTHER -> dir

\* One step of the launcher of session s inside setupWorktree: it runs cmd,
\* leaves the repository as g and goes on at pc.
SetupStep(s, cmd_, g, pc) ==
    /\ ~crashed
    /\ launch[s] = "running"
    /\ gitLog' = [gitLog EXCEPT ![s] = Append(@, cmd_)]
    /\ SetGit(g)
    /\ setupPc' = [setupPc EXCEPT ![s] = pc]
    /\ workDir' = [workDir EXCEPT ![s] = WorkDirAfter(pc, @)]
    /\ UNCHANGED <<cleanups, partyCleanup>>
    /\ gitFrame

\* setupWorktree, "git rev-parse --is-inside-work-tree" in projectDir
\* (part_003:225-229): outside a repository the error is returned.
SetupRevParse(s) ==
    /\ setupPc[s] = "none"
    /\ SetupStep(s, "rev-parse", GitState, IF isRepo THEN "stat" ELSE "err")

\* os.Stat(wtPath) (part_003:235).
SetupStat(s) ==
    /\ setupPc[s] = "stat"
    /\ SetupStep(s, "stat", GitState,
                 IF wtFs[KeyPath] # "absent" THEN "check" ELSE "prune")

\* "git rev-parse" inside wtPath (part_003:236-238): a valid worktree is
\* returned as it is.
SetupCheck(s) ==
    /\ setupPc[s] = "check"
    /\ SetupStep(s, "rev-parse-wt", GitState,
                 IF wtFs[KeyPath] = "valid" THEN "ok" ELSE "remove")

\* Stale worktree: "git worktree remove --force" (part_003:240).
SetupRemove(s) ==
    /\ setupPc[s] = "remove"
    /\ SetupStep(s, "remove", GitWorktreeRemove(GitState, KeyPath), "rmall")

\* os.RemoveAll(wtPath) (part_003:241).
SetupRemoveAll(s) ==
    /\ setupPc[s] = "rmall"
    /\ SetupStep(s, "rm", RemoveAll(GitState, KeyPath), "prune")

\* "git worktree prune" (part_003:245); the os.MkdirAll of the parent that
\* follows changes nothing the model holds.
SetupPrune(s) ==
    /\ setupPc[s] = "prune"
    /\ SetupStep(s, "prune", GitWorktreePrune(GitState), "add")

\* The commands of the creation, in the order setupWorktree tries them.
AddOrderNewFirst == <<"add-b", "add">>

\* part_003:249-254: "git worktree add <path> <branch>" first, and
\* "git worktree add -b <branch> <path>" when that failed.
AddOrder == <<"add", "add-b">>

AddCmdOk(c, g) ==
    IF c = "add" THEN GitWorktreeAddOk(g, KeyPath, KeyBranch)
                 ELSE GitWorktreeAddNewOk(g, KeyPath, KeyBranch)

AddCmd(c, g) ==
    IF c = "add" THEN GitWorktreeAdd(g, KeyPath, KeyBranch)
                 ELSE GitWorktreeAddNew(g, KeyPath, KeyBranch)

\* First creation command (part_003:250).
SetupAdd(s) ==
    /\ setupPc[s] = "add"
    /\ SetupStep(s, AddOrder[1], AddCmd(AddOrder[1], GitState),
                 IF AddCmdOk(AddOrder[1], GitState) THEN "ok" ELSE "add2")

\* Second creation command (part_003:251-253); its failure is the error
\* of setupWorktree.
SetupAddNew(s) ==
    /\ setupPc[s] = "add2"
    /\ SetupStep(s, AddOrder[2], AddCmd(AddOrder[2], GitState),
                 IF AddCmdOk(AddOrder[2], GitState) THEN "ok" ELSE "err")

\* setupWorktree has returned to startAgentProcess.
SetupReturned(s) == setupPc[s] \in {"ok", "err"}

\* cmd.Dir exists, so that pty.StartWithSize can start the child in it.
WorkDirExists(s) == workDir[s] = "wt" => wtFs[KeyPath] # "absent"

\* startAgentProcess after setupWorktree (part_003:131-163): the child is
\* started in the worktree or, after an error, in the project directory,
\* and the message carries the path and branch setupWorktree returned.
LaunchStartOk(s) ==
    /\ SetupReturned(s)
    /\ WorkDirExists(s)
    /\ StartAgentProcessOk(s, IF setupPc[s] = "ok" THEN "wt" ELSE "")

\* pty.StartWithSize fails (part_003:147-150), for a missing working
\* directory or for any other reason.
LaunchStartFail(s) ==
    /\ SetupReturned(s)
    /\ StartAgentProcessFail(s)

\* First command of cleanupWorktree for an action (part_003:262-272).
CleanupFirst(action) == IF action = "merge" THEN "merge" ELSE "remove"

\* The "go cleanupWorktree(projectDir, Worktree, Branch, action)" of
\* handleCheckoutWorktree (model.go:1355, 1361), with the bindings as they
\* are when the key is handled.
SpawnCleanup(action) ==
    Append(cleanups, [action |-> action, wt |-> Worktree, br |-> Branch,
                      pc |-> CleanupFirst(action)])

\* handleCheckoutWorktree (model.go:1346-1372) with the goroutine it
\* starts for merge and discard.
HandleCheckoutWorktreeGo(action) ==
    /\ CheckoutDisposition(action)
    /\ cleanups' = IF action \in {"merge", "discard"}
                      THEN SpawnCleanup(action)
                      ELSE cleanups

\* One command of the k-th cleanupWorktree goroutine.
CleanupStep(k, g, pc) ==
    /\ ~crashed
    /\ SetGit(g)
    /\ cleanups' = [cleanups EXCEPT ![k].pc = pc]
    /\ UNCHANGED <<setupPc, gitLog, workDir, partyCleanup>>
    /\ gitFrame

\* "git merge --squash <branch>" (part_003:264); an empty branch name is
\* an error.
CleanupMerge(k, outcome) ==
    /\ cleanups[k].pc = "merge"
    /\ CleanupStep(k, IF cleanups[k].br = "" THEN GitState
                      ELSE GitMergeSquash(GitState, KeyBranch, outcome),
                   "commit")

\* "git commit" (part_003:265-266).
CleanupCommit(k) ==
    /\ cleanups[k].pc = "commit"
    /\ CleanupStep(k, GitCommit(GitState), "remove")

\* "git worktree remove --force <wtPath>" (part_003:267, 270).
CleanupRemove(k) ==
    /\ cleanups[k].pc = "remove"
    /\ CleanupStep(k, IF cleanups[k].wt = "" THEN GitState
                      ELSE GitWorktreeRemove(GitState, KeyPath),
                   "branch")

\* "git branch -D <branch>" (part_003:268, 271), the last command.
CleanupBranch(k) ==
    /\ cleanups[k].pc = "branch"
    /\ CleanupStep(k, IF cleanups[k].br = "" THEN GitState
                      ELSE GitBranchDelete(GitState, KeyBranch),
                   "done")

\* os.ReadDir lists the entries by name.
DirOrder == <<KeyPath, OtherPath>>

RECURSIVE EntriesFrom(_, _)
EntriesFrom(g, i) ==
    IF i > Len(DirOrder) THEN <<>>
    ELSE (IF g.fs[DirOrder[i]] # "absent" THEN <<DirOrder[i]>> ELSE <<>>)
         \o EntriesFrom(g, i + 1)

\* The directories os.ReadDir(wtDir) returns (part_003:278-284).
PartyEntries(g) == EntriesFrom(g, 1)

\* One step of the cleanupPartyWorktrees goroutine.
PartyCleanupStep(g, pc, todo) ==
    /\ ~crashed
    /\ SetGit(g)
    /\ partyCleanup' = [pc |-> pc, todo |-> todo]
    /\ UNCHANGED <<setupPc, gitLog, workDir, cleanups>>
    /\ gitFrame

\* os.ReadDir(wtDir) (part_003:278-282); a party without worktree
\* directory has nothing to clean.
PartyCleanupReadDir ==
    /\ partyCleanup.pc = "readdir"
    /\ LET todo == PartyEntries(GitState)
       IN  PartyCleanupStep(GitState, IF todo = <<>> THEN "rmall" ELSE "remove", todo)

\* "git worktree remove --force" on the next entry (part_003:287).
PartyCleanupRemove ==
    /\ partyCleanup.pc = "remove"
    /\ PartyCleanupStep(GitWorktreeRemove(GitState, Head(partyCleanup.todo)),
                        "branch", partyCleanup.todo)

\* "git branch -D forge/<party>/<entry>" (part_003:286, 288), then the
\* next entry.
PartyCleanupBranch ==
    /\ partyCleanup.pc = "branch"
    /\ LET rest == Tail(partyCleanup.todo)
       IN  PartyCleanupStep(GitBranchDelete(GitState, BranchOf(Head(partyCleanup.todo))),
                            IF rest = <<>> THEN "rmall" ELSE "remove", rest)

\* os.RemoveAll(wtDir) (part_003:291).
PartyCleanupRemoveAll ==
    /\ partyCleanup.pc = "rmall"
    /\ PartyCleanupStep([GitState EXCEPT !.fs = [path \in WtPaths |->
                            IF path \in PartyPaths(IsoPair[1]) THEN "absent" ELSE @[path]]],
                        "done", <<>>)

\* The program starts on a party of one agent whose project is a git
\* repository or not; in a repository another agent of the party has a
\* worktree from an earlier run.
InitIsolation ==
    /\ InitAgent /\ InitRosterIdle /\ InitCtxIdle /\ InitEquipIdle /\ InitComposeIdle /\ InitPartyIdle
    /\ wtPair = IsoPair /\ wtLog = <<>>
    /\ isRepo \in BOOLEAN
    /\ \E left \in KeyLefts :
          IF isRepo
             THEN /\ wtFs = [path \in WtPaths |->
                                CASE path = KeyPath -> left.fs
                                  [] path = OtherPath -> "valid"
                                  [] OTHER -> "absent"]
                  /\ wtReg = {OtherPath} \cup (IF left.reg THEN {KeyPath} ELSE {})
                  /\ branches = {BranchOf(OtherPath)}
                                   \cup (IF left.br THEN {KeyBranch} ELSE {})
             ELSE /\ wtFs = [path \in WtPaths |-> "absent"]
                  /\ wtReg = {} /\ branches = {}
    /\ index = "clean" /\ merged = FALSE
    /\ Branch = ""
    /\ startedBr = [s \in Sessions |-> ""]
    /\ setupPc = [s \in Sessions |-> "none"]
    /\ gitLog = [s \in Sessions |-> <<>>]
    /\ workDir = [s \in Sessions |-> ""]
    /\ cleanups = NoCleanups
    /\ deleteConfirm = FALSE
    /\ partyDeleted = FALSE
    /\ partyCleanup = PartyCleanupIdle

\* The launcher, step by step.
LauncherSteps ==
    \/ \E s \in Sessions : SetupRevParse(s)
    \/ \E s \in Sessions : SetupStat(s)
    \/ \E s \in Sessions : SetupCheck(s)
    \/ \E s \in Sessions : SetupRemove(s)
    \/ \E s \in Sessions : SetupRemoveAll(s)
    \/ \E s \in Sessions : SetupPrune(s)
    \/ \E s \in Sessions : SetupAdd(s)
    \/ \E s \in Sessions : SetupAddNew(s)
    \/ \E s \in Sessions : LaunchStartOk(s)
    \/ \E s \in Sessions : LaunchStartFail(s)

\* The cleanup goroutines, step by step.
CleanupSteps ==
    \/ \E k \in DOMAIN cleanups, outcome \in MergeOutcomes : CleanupMerge(k, outcome)
    \/ \E k \in DOMAIN cleanups : CleanupCommit(k)
    \/ \E k \in DOMAIN cleanups : CleanupRemove(k)
    \/ \E k \in DOMAIN cleanups : CleanupBranch(k)
    \/ PartyCleanupReadDir
    \/ PartyCleanupRemove
    \/ PartyCleanupBranch
    \/ PartyCleanupRemoveAll

\* Keys go to handleDeleteConfirm while the confirmation is open, and the
\* instance of a deleted party is no longer found by its ID.
NextIsolation ==
    \/ HandleResizeAutoStart
    \/ ~deleteConfirm /\ ~partyDeleted /\ HandleMainPaneKeyS
    \/ LauncherSteps
    \/ \E s \in Sessions : HandleAgentStarted(s)
    \/ \E o \in Origins : HandleAgentExited(o)
    \/ \E s \in Sessions : ProcessExits(s)
    \/ \E s \in Sessions : ReadReturnsError(s)
    \/ ~deleteConfirm /\ HandleCheckoutXP(FALSE)
    \/ ~deleteConfirm /\ HandleCheckoutHandoff
    \/ ~deleteConfirm /\ \E action \in {"merge", "keep", "discard"} :
                            HandleCheckoutWorktreeGo(action)
    \/ \E size \in TermSizes : HandleLeftPanelKeyD(size)
    \/ \E yes \in BOOLEAN, size \in TermSizes : HandleDeleteConfirm(yes, size)
    \/ CleanupSteps

SpecIsolation == InitIsolation /\ [][NextIsolation]_vars

(***************************************************************************)
(* The party: slots, bench, the instances and their checkout               *)
(***************************************************************************)

\* const MaxPartySlots (model.go:127).
MaxPartySlots == 8
\* Instances the party file of a run names, slots and bench together.
NumAgents == 3
\* Instances of the party whose launches and checkouts are followed.
NumCrew == 2
\* Launches in one run.
MaxRuns == 3
\* Longest LastOutput handleAgentExited keeps, in bytes (model.go:672).
SnapLimit == 2000

AgentIds == 1..NumAgents
SlotIndexes == 0..(MaxPartySlots - 1)

\* A string is a list of runs of like characters: n characters of kind k,
\* "asc" for one-byte characters, "lf" for "\n", "crlf" for "\r\n", "wide"
\* for characters of three bytes and "cut" for the bytes a slice left of a
\* character it cut through.  The empty list is "".
KindBytes(k) == CASE k = "crlf" -> 2 [] k = "wide" -> 3 [] OTHER -> 1

\* "\r\n" is two characters, every other unit is one.
KindChars(k) == IF k = "crlf" THEN 2 ELSE 1

\* len(s).
RECURSIVE ByteLen(_)
ByteLen(t) ==
    IF t = <<>> THEN 0 ELSE t[1].n * KindBytes(t[1].k) + ByteLen(Tail(t))

\* utf8.RuneCountInString(s).
RECURSIVE CharLen(_)
CharLen(t) ==
    IF t = <<>> THEN 0 ELSE t[1].n * KindChars(t[1].k) + CharLen(Tail(t))

\* strings.ReplaceAll(s, "\r\n", "\n") (model.go:669).
ReplaceCRLF(t) ==
    [i \in 1..Len(t) |-> IF t[i].k = "crlf" THEN [k |-> "lf", n |-> t[i].n] ELSE t[i]]

\* What a slice leaves of a unit of kind k it cuts through.
StrayKind(k) == IF k = "crlf" THEN "lf" ELSE "cut"

\* s[len(s)-b:], the last b bytes of s, for b <= len(s).
RECURSIVE LastBytes(_, _)
LastBytes(t, b) ==
    IF b = 0 \/ t = <<>> THEN <<>>
    ELSE LET last  == t[Len(t)]
             w     == KindBytes(last.k)
             front == SubSeq(t, 1, Len(t) - 1)
         IN  IF last.n * w <= b
                THEN LastBytes(front, b - last.n * w) \o <<last>>
                ELSE (IF b % w # 0
                         THEN <<[k |-> StrayKind(last.k), n |-> b % w]>>
                         ELSE <<>>)
                     \o (IF b \div w > 0
                            THEN <<[k |-> last.k, n |-> b \div w]>>
                            ELSE <<>>)

\* model.go:669-673: the rendered screen with "\r\n" replaced, cut to its
\* last 2000 bytes when it is longer.
Snapshot(render) ==
    LET s == ReplaceCRLF(render)
    IN  IF ByteLen(s) > SnapLimit THEN LastBytes(s, SnapLimit) ELSE s

\* What emulator.Render() returns at the exits of a run.
Screens ==
    { <<>>,
      <<[k |-> "asc", n |-> 10]>>,
      <<[k |-> "asc", n |-> 30], [k |-> "crlf", n |-> 1], [k |-> "asc", n |-> 5]>>,
      <<[k |-> "asc", n |-> 2000]>>,
      <<[k |-> "asc", n |-> 2001]>>,
      <<[k |-> "asc", n |-> 1990], [k |-> "crlf", n |-> 8]>>,
      <<[k |-> "asc", n |-> 1990], [k |-> "crlf", n |-> 20]>>,
      <<[k |-> "wide", n |-> 700]>>,
      <<[k |-> "asc", n |-> 100], [k |-> "wide", n |-> 640]>> }

\* inst.HandoffContext == "".
NoHandoff == [from |-> Nil, out |-> <<>>, n |-> 0]

\* The text handleCheckoutHandoff builds (model.go:1331-1336) from the
\* name and class of the checkout agent and its LastOutput; n numbers the
\* handoffs of a run (history).
HandoffText(from, out, n) == [from |-> from, out |-> out, n |-> n]

\* buildInstance (model.go:1465-1512): an idle instance with the loadout
\* of its slot and no handles.
NewAgent(equipped, passives) ==
    [Status |-> "idle", Equipped |-> equipped, Passives |-> passives,
     HasPending |-> FALSE, PendingEquipped |-> <<>>, PendingPassives |-> <<>>,
     LastOutput |-> <<>>, HandoffContext |-> NoHandoff, Worktree |-> "",
     emulator |-> Nil, ptyFile |-> Nil, cmd |-> Nil]

\* model.go:659-665: a pending loadout becomes the loadout.
ApplyPending(a) ==
    IF a.HasPending
       THEN [a EXCEPT !.Equipped = a.PendingEquipped,
                      !.Passives = a.PendingPassives,
                      !.HasPending = FALSE,
                      !.PendingEquipped = <<>>,
                      !.PendingPassives = <<>>]
       ELSE a

\* model.go:668-674: the screen of the emulator the instance holds.
CaptureOutput(a, render) ==
    IF a.emulator # Nil THEN [a EXCEPT !.LastOutput = Snapshot(render)] ELSE a

\* model.go:686-688.
ReleaseHandles(a) ==
    [a EXCEPT !.ptyFile = Nil, !.cmd = Nil, !.emulator = Nil]

\* A handler that gives up the handles before it looks at the emulator.
ExitedInstReleaseFirst(a, render) ==
    CaptureOutput(ReleaseHandles(ApplyPending([a EXCEPT !.Status = "exited"])), render)

\* handleAgentExited on the instance (model.go:647-688), in its order:
\* Status, pending loadout, LastOutput, handles.
ExitedInst(a, render) ==
    ReleaseHandles(CaptureOutput(ApplyPending([a EXCEPT !.Status = "exited"]), render))

\* m.agent() (model.go:272-281).
SelectedInst ==
    IF selectedAgent \in SlotIndexes THEN Slots[selectedAgent] ELSE Nil

leftPanelWidth == 20
gitPanelWidth == 30

Max(a, b) == IF a > b THEN a ELSE b
Min(a, b) == IF a < b THEN a ELSE b

\* mainPaneWidth (model.go:368-377).
MainPaneWidth(width, showGitPanel) ==
    Max(width - leftPanelWidth - 1
            - (IF showGitPanel THEN gitPanelWidth + 1 ELSE 0), 20)

\* The non-nil slots of p.Slots (model.go:423-431).
ActiveCount(slots) == Cardinality({x \in SlotIndexes : slots[x] # Nil})

\* cardLayout (model.go:421-485) for a window of width by height and a
\* party with count non-nil slots.
CardLayout(width, height, showGitPanel, count) ==
    LET activeCount    == Max(count, 1)
        availableWidth == MainPaneWidth(width, showGitPanel) - 10
        fitted         == Min(availableWidth \div activeCount - 2, 28)
        cardWidth      == Max(fitted, 18)
        cardsPerRow    == IF fitted < 18
                             THEN Max(availableWidth \div (18 + 2), 1)
                             ELSE activeCount
        avatarCols     == Max(cardWidth - 2, 8)
        rows           == Max((activeCount + cardsPerRow - 1) \div cardsPerRow, 1)
        maxPartyH      == Max((height * 40) \div 100, 10)
        maxAvatarRows  == Max(maxPartyH \div rows - 6, 3)
        avatarRows     == IF height > 0
                             THEN Min(avatarCols \div 2, maxAvatarRows)
                             ELSE avatarCols \div 2
        cardHeight     == avatarRows + 4
    IN  [CardWidth |-> cardWidth, CardHeight |-> cardHeight,
         CardsPerRow |-> cardsPerRow,
         PartyHeight |-> (cardHeight + 2) * rows + 1]

\* recomputeLayout (model.go:398-419): the LayoutCache for window win, no
\* git panel and a party with count non-nil slots.
RecomputeLayout(win, count) ==
    LET cl == CardLayout(win[1], win[2], FALSE, count)
    IN  [TermWidth   |-> MainPaneWidth(win[1], FALSE) - 2,
         TermHeight  |-> Max(win[2] - cl.PartyHeight - 3, 3),
         CardWidth   |-> cl.CardWidth,
         CardHeight  |-> cl.CardHeight,
         CardsPerRow |-> cl.CardsPerRow]

\* <<th, tw>> of a LayoutCache.
TermSize(lc) == <<lc.TermHeight, lc.TermWidth>>

\* "m.layout = LayoutCache{...}" (model.go:406-418).
SetLayout(lc) ==
    /\ layout' = TermSize(lc)
    /\ cards' = [CardWidth |-> lc.CardWidth, CardHeight |-> lc.CardHeight,
                 CardsPerRow |-> lc.CardsPerRow]

\* pty.Setsize and emulator.Resize on an instance that is running and
\* holds both handles (model.go:1035-1040, 553-556, 864-867): the launches
\* rs after the PTY of instance i was resized to size, its emulator still
\* to be resized by the same handler (CoreResizeEmulatorRun).
ResizeInst(rs, ag, i, size) ==
    IF ag[i].Status = "running" /\ ag[i].emulator # Nil /\ ag[i].ptyFile # Nil
       THEN [rs EXCEPT ![ag[i].ptyFile].ptySize = size,
                       ![ag[i].emulator].emTo = size]
       ELSE rs

\* What the party model leaves alone of the one-instance model, but for
\* the layout.
partyFrameButLayout ==
    /\ UNCHANGED instVars /\ UNCHANGED resVars /\ UNCHANGED msgVars
    /\ UNCHANGED <<checkoutAgent, autoStartPending>>
    /\ UNCHANGED <<coreWrite, writeLen, launched, launch, startedWt, fwd, td>>
    /\ UNCHANGED launchSize /\ UNCHANGED geoVars
    /\ UNCHANGED <<equipVars, composeVars, worktreeVars, gitVars, ctxVars, rosterKeep>>
    /\ UNCHANGED <<Branch, startedBr, cleanups>>

\* What the party model leaves alone of the one-instance model.
partyFrame == partyFrameButLayout /\ UNCHANGED <<layout, cards>>

\* The launch whose AgentExitedMsg is in flight: its launcher failed, or
\* the read of its PTY returned an error.
ExitInFlight(l) == runs[l].st \in {"failed", "dead"}

\* The runs after handleAgentExited for launch l: the goroutine of
\* model.go:689-699 is started on the emulator e the instance held, and
\* shown is what that emulator rendered (history).
RunsAfterExit(l, e, render) ==
    [k \in DOMAIN runs |->
        LET r1 == IF k = l THEN [runs[k] EXCEPT !.st = "over"] ELSE runs[k]
        IN  IF k = e THEN [r1 EXCEPT !.em = "closing", !.shown = render] ELSE r1]

\* handleAgentExited (model.go:642-702) for the AgentExitedMsg of launch l;
\* render is what the emulator of the instance shows.  Whatever the mode
\* was (model.go:651-656), the checkout modal takes it (model.go:680).
HandleAgentExitedRun(l, render) ==
    /\ ~crashed
    /\ ExitInFlight(l)
    /\ LET i == runs[l].inst
       IN  /\ agents' = [agents EXCEPT ![i] = ExitedInst(@, render)]
           /\ mode' = "checkout"
           /\ checkoutId' = i
           /\ checkoutStep' = 0
           /\ handoffTarget' = -1
           /\ runs' = RunsAfterExit(l, agents[i].emulator, render)
    /\ UNCHANGED <<Slots, Bench, selectedAgent, swapIndex, handoffLog, crashed>>
    /\ partyFrame

\* em.Close() in the goroutine of handleAgentExited (model.go:690-692).
CloseEmulatorRun(l) ==
    /\ ~crashed
    /\ runs[l].em = "closing"
    /\ runs' = [runs EXCEPT ![l].em = "closed"]
    /\ UNCHANGED <<Slots, Bench, selectedAgent, swapIndex, agents, checkoutId,
                   handoffTarget, handoffLog, mode, checkoutStep, crashed>>
    /\ partyFrame

\* Loadouts: lists of skill IDs.
Loadouts == {<<>>, <<1>>, <<2, 1>>}

\* No delayedResize command was returned for the launch.
NoJiggle == [pc |-> "none", inst |-> Nil, size |-> NoSize]

\* A launch: the instance, the HandoffContext of its LaunchConfig, the
\* prompt the launcher built (<<>> before it did), its position and the
\* state of its emulator; size is <<Rows, Cols>> of the LaunchConfig
\* (part_003:95-96); ptySize and emSize are the sizes of the PTY and of the
\* emulator the launcher makes; emTo is the size a handler of the core has
\* given the PTY and has yet to give the emulator, NoSize when there is
\* none; jig is the delayedResize command handleAgentStarted returns for
\* the launch.
NewRun(i, handoff, size) ==
    [inst |-> i, handoff |-> handoff, prompt |-> <<>>, st |-> "launching",
     em |-> "none", shown |-> <<>>, size |-> size, ptySize |-> NoSize,
     emSize |-> NoSize, emTo |-> NoSize, jig |-> NoJiggle]

\* One slot holding instance 1, the other slots empty.
OneSlot == [x \in SlotIndexes |-> IF x = 0 THEN 1 ELSE Nil]

\* handleAgentExited as a function of what it is handed: an instance with
\* any loadout, pending or not, that holds the emulator of its launch or
\* none (failed launch, repeated message).
InitExited ==
    /\ InitAgent /\ InitRosterIdle /\ InitCtxIdle /\ InitEquipIdle /\ InitComposeIdle /\ InitWorktreeIdle
    /\ InitGitIdle
    /\ Slots = OneSlot /\ Bench = <<>>
    /\ selectedAgent = 0 /\ swapIndex = 0
    /\ checkoutId = Nil /\ handoffTarget = -1 /\ handoffLog = <<>>
    /\ \E held \in BOOLEAN, failed \in BOOLEAN :
          /\ failed => ~held
          /\ runs = <<[NewRun(1, NoHandoff, layout) EXCEPT
                          !.prompt = <<"composed">>,
                          !.st = IF failed THEN "failed" ELSE "dead",
                          !.em = IF failed THEN "closed" ELSE "open"]>>
          /\ \E status \in {"idle", "running", "exited"},
                equipped \in Loadouts, pendingEq \in Loadouts,
                pendingPa \in Loadouts, pending \in BOOLEAN,
                last \in {<<>>, <<[k |-> "asc", n |-> 7]>>} :
                agents = [i \in {1} |->
                             [NewAgent(equipped, <<>>) EXCEPT
                                 !.Status = status,
                                 !.HasPending = pending,
                                 !.PendingEquipped = IF pending THEN pendingEq ELSE <<>>,
                                 !.PendingPassives = IF pending THEN pendingPa ELSE <<>>,
                                 !.LastOutput = last,
                                 !.emulator = IF held THEN 1 ELSE Nil,
                                 !.ptyFile = IF held THEN 1 ELSE Nil,
                                 !.cmd = IF held THEN 1 ELSE Nil]]

NextExited ==
    \/ \E l \in DOMAIN runs, render \in Screens : HandleAgentExitedRun(l, render)
    \/ \E l \in DOMAIN runs : CloseEmulatorRun(l)

SpecExited == InitExited /\ [][NextExited]_vars

\* What the party keys and messages leave alone.
partyKeep == UNCHANGED crashed /\ partyFrame

\* lastSlotIndex (model.go:283-295).
LastSlotIndex ==
    LET used == {x \in SlotIndexes : Slots[x] # Nil}
    IN  IF used = {} THEN 0 ELSE CHOOSE x \in used : \A y \in used : y <= x

\* The digit keys "1" to "8" as slot indexes (model.go:882-886).
DigitKeys == 0..(MaxPartySlots - 1)

\* handleMainPaneKeys, "left" and "right" (model.go:874-881).
HandleMainPaneNav(key) ==
    /\ ~crashed /\ mode = "normal"
    /\ selectedAgent' =
          IF key = "left"
             THEN (IF selectedAgent > 0 THEN selectedAgent - 1 ELSE selectedAgent)
             ELSE (IF selectedAgent < LastSlotIndex THEN selectedAgent + 1
                                                    ELSE selectedAgent)
    /\ UNCHANGED <<Slots, Bench, swapIndex, agents, checkoutId, handoffTarget,
                   runs, handoffLog, mode, checkoutStep>>
    /\ partyKeep

\* handleMainPaneKeys, a digit key for slot index idx (model.go:882-886).
HandleMainPaneDigit(idx) ==
    /\ ~crashed /\ mode = "normal"
    /\ selectedAgent' = IF idx <= LastSlotIndex THEN idx ELSE selectedAgent
    /\ UNCHANGED <<Slots, Bench, swapIndex, agents, checkoutId, handoffTarget,
                   runs, handoffLog, mode, checkoutStep>>
    /\ partyKeep

\* A startAgent that leaves the payload on the instance.
KeepHandoff(a) == a

\* startAgent, "inst.HandoffContext = """ (part_003:84).
ConsumeHandoff(a) == [a EXCEPT !.HandoffContext = NoHandoff]

\* handleMainPaneKeys, "s" (model.go:901-920) with startAgent
\* (part_003:82-99): an idle or exited instance is marked idle and a launch
\* is started whose LaunchConfig carries the HandoffContext of the instance.
HandleMainPaneStart ==
    /\ ~crashed /\ mode = "normal"
    /\ Len(runs) < MaxRuns
    /\ SelectedInst # Nil
    /\ agents[SelectedInst].Status \in {"idle", "exited"}
    /\ runs' = Append(runs, NewRun(SelectedInst, agents[SelectedInst].HandoffContext,
                                    layout))
    /\ agents' = [agents EXCEPT ![SelectedInst] =
                     ConsumeHandoff([@ EXCEPT !.Status = "idle"])]
    /\ UNCHANGED <<Slots, Bench, selectedAgent, swapIndex, checkoutId,
                   handoffTarget, handoffLog, mode, checkoutStep>>
    /\ partyKeep

\* part_003:109-113: the composed prompt, with the handoff text appended
\* when there is one.
PromptOf(handoff) ==
    <<"composed">> \o (IF handoff # NoHandoff THEN <<handoff>> ELSE <<>>)

\* startAgentProcess (part_003:102-163) for launch l: the emulator is
\* created and the prompt built; the child starts and AgentStartedMsg is
\* sent, or pty.StartWithSize fails, the emulator is closed and
\* AgentExitedMsg is sent.  The project of the party is not a git
\* repository, so the child runs in the project directory.
StartAgentProcessRun(l, ok) ==
    /\ ~crashed
    /\ runs[l].st = "launching"
    /\ runs' = [runs EXCEPT ![l].prompt = PromptOf(runs[l].handoff),
                            ![l].st = IF ok THEN "started" ELSE "failed",
                            ![l].em = IF ok THEN "open" ELSE "closed",
                            ![l].emSize = runs[l].size,
                            ![l].ptySize = IF ok THEN runs[l].size ELSE NoSize]
    /\ UNCHANGED <<Slots, Bench, selectedAgent, swapIndex, agents, checkoutId,
                   handoffTarget, handoffLog, mode, checkoutStep>>
    /\ partyKeep

\* delayedResize (part_003:316-318) as handleAgentStarted returns it: the
\* command holds the instance and the terminal size of the layout as it is.
DelayedResize(inst, size) == [pc |-> "sleep", inst |-> inst, size |-> size]

\* handleAgentStarted (model.go:605-623) for the message of launch l; the
\* read of the PTY is started and the delayedResize command returned.
HandleAgentStartedRun(l) ==
    /\ ~crashed
    /\ runs[l].st = "started"
    /\ agents' = [agents EXCEPT ![runs[l].inst] =
                     [@ EXCEPT !.cmd = l, !.ptyFile = l, !.emulator = l,
                               !.Worktree = "", !.Status = "running"]]
    /\ runs' = [runs EXCEPT ![l].st = "live",
                            ![l].jig = DelayedResize(runs[l].inst, layout)]
    /\ UNCHANGED <<Slots, Bench, selectedAgent, swapIndex, checkoutId,
                   handoffTarget, handoffLog, mode, checkoutStep>>
    /\ partyKeep

\* What the delayedResize command leaves alone.
delayedResizeFrame ==
    /\ UNCHANGED <<Slots, Bench, selectedAgent, swapIndex, agents, checkoutId,
                   handoffTarget, handoffLog, mode, checkoutStep>>
    /\ partyFrame

\* delayedResize (part_003:319-322) of launch l after its first sleep: with
\* a nil handle on the instance the command returns at once.
DelayedResizeWake(l) ==
    /\ ~crashed
    /\ runs[l].jig.pc = "sleep"
    /\ LET a == agents[runs[l].jig.inst]
       IN  runs' = [runs EXCEPT ![l].jig.pc =
                        IF a.ptyFile = Nil \/ a.emulator = Nil THEN "done" ELSE "pty1"]
    /\ UNCHANGED crashed
    /\ delayedResizeFrame

\* pty.Setsize(inst.ptyFile, ...) of either half of the command of launch
\* l (part_003:323-326, 330-333), on the PTY the instance holds now: one
\* row less than the size the command was made with, then that size.  On
\* a nil file the ioctl fails and the error is dropped.
DelayedResizeSetsize(l) ==
    /\ ~crashed
    /\ runs[l].jig.pc \in {"pty1", "pty2"}
    /\ LET j    == runs[l].jig
           a    == agents[j.inst]
           next == IF j.pc = "pty1" THEN "em1" ELSE "em2"
       IN  runs' = IF a.ptyFile # Nil
                      THEN [runs EXCEPT ![a.ptyFile].ptySize = JiggleTarget(j),
                                        ![l].jig.pc = next]
                      ELSE [runs EXCEPT ![l].jig.pc = next]
    /\ UNCHANGED crashed
    /\ delayedResizeFrame

\* inst.emulator.Resize(...) of either half of the command of launch l
\* (part_003:327, 334), on the emulator the instance holds now; a nil
\* emulator is dereferenced and the program panics.  The second sleep
\* follows the first half, and after the second the command returns
\* forceResizeMsg, which Update ignores.
DelayedResizeEmulator(l) ==
    /\ ~crashed
    /\ runs[l].jig.pc \in {"em1", "em2"}
    /\ LET j == runs[l].jig
           a == agents[j.inst]
       IN  IF a.emulator = Nil
              THEN /\ crashed' = TRUE
                   /\ runs' = [runs EXCEPT ![l].jig.pc = "panic"]
              ELSE /\ runs' = [runs EXCEPT ![a.emulator].emSize = JiggleTarget(j),
                                           ![l].jig.pc =
                                               IF j.pc = "em1" THEN "pty2" ELSE "done"]
                   /\ UNCHANGED crashed
    /\ delayedResizeFrame

\* Fewer than cap delayedResize commands have got past their first sleep.
JigglesBelow(cap) ==
    Cardinality({l \in DOMAIN runs : runs[l].jig.pc \notin {"none", "sleep"}}) < cap

\* inst.emulator.Resize of a resize loop of the core (model.go:556, 867,
\* 1039), which follows the pty.Setsize of ResizeInst in the same handler.
CoreResizeEmulatorRun(l) ==
    /\ ~crashed
    /\ runs[l].emTo # NoSize
    /\ runs' = [runs EXCEPT ![l].emSize = runs[l].emTo, ![l].emTo = NoSize]
    /\ UNCHANGED crashed
    /\ delayedResizeFrame

\* The child of launch l exits and the read of its PTY returns the error
\* that becomes an AgentExitedMsg (part_003:165-185).
ChildExitsRun(l) ==
    /\ ~crashed
    /\ runs[l].st = "live"
    /\ runs' = [runs EXCEPT ![l].st = "dead"]
    /\ UNCHANGED <<Slots, Bench, selectedAgent, swapIndex, agents, checkoutId,
                   handoffTarget, handoffLog, mode, checkoutStep>>
    /\ partyKeep

\* advanceCheckout (model.go:1246-1260).
AdvanceCheckoutRun(fromStep) ==
    LET a == agents[checkoutId]
    IN  IF fromStep <= 2 /\ a.LastOutput # <<>>
           THEN /\ checkoutStep' = 2 /\ handoffTarget' = 0
                /\ UNCHANGED <<checkoutId, mode>>
           ELSE IF fromStep <= 3 /\ a.Worktree # ""
                   THEN /\ checkoutStep' = 3
                        /\ UNCHANGED <<checkoutId, mode, handoffTarget>>
                   ELSE /\ checkoutId' = Nil /\ checkoutStep' = 0
                        /\ mode' = "normal"
                        /\ UNCHANGED handoffTarget

\* handleCheckoutMode (model.go:1188-1206) passes the key to the handler
\* of the step.
CheckoutAt(step) ==
    ~crashed /\ mode = "checkout" /\ checkoutId # Nil /\ checkoutStep = step

\* handleCheckoutXP (model.go:1208-1243): "1" offers the scroll, "2", "3"
\* and esc go on.
HandleCheckoutXPRun(key) ==
    /\ CheckoutAt(0)
    /\ IF key = "1"
          THEN /\ checkoutStep' = 1
               /\ UNCHANGED <<checkoutId, mode, handoffTarget>>
          ELSE AdvanceCheckoutRun(2)
    /\ UNCHANGED <<Slots, Bench, selectedAgent, swapIndex, agents, runs, handoffLog>>
    /\ partyKeep

\* handleCheckoutScroll, enter and esc (model.go:1262-1272).
HandleCheckoutScrollRun ==
    /\ CheckoutAt(1)
    /\ AdvanceCheckoutRun(2)
    /\ UNCHANGED <<Slots, Bench, selectedAgent, swapIndex, agents, runs, handoffLog>>
    /\ partyKeep

\* The other instances in the slots of the party, in slot order
\* (model.go:1310-1316).
RECURSIVE TargetsFrom(_)
TargetsFrom(x) ==
    IF x \notin SlotIndexes THEN <<>>
    ELSE (IF Slots[x] # Nil /\ Slots[x] # checkoutId THEN <<Slots[x]>> ELSE <<>>)
         \o TargetsFrom(x + 1)

Targets == TargetsFrom(0)

\* handleCheckoutHandoff (model.go:1303-1344): up and down move the
\* choice, enter leaves the handoff text on the chosen target, enter and
\* esc go on.
HandleCheckoutHandoffRun(key) ==
    /\ CheckoutAt(2)
    /\ CASE key = "up" ->
              /\ handoffTarget' = IF handoffTarget > 0 THEN handoffTarget - 1
                                                       ELSE handoffTarget
              /\ UNCHANGED <<agents, handoffLog, checkoutId, checkoutStep, mode>>
         [] key = "down" ->
              /\ handoffTarget' = IF handoffTarget < Len(Targets) - 1
                                     THEN handoffTarget + 1 ELSE handoffTarget
              /\ UNCHANGED <<agents, handoffLog, checkoutId, checkoutStep, mode>>
         [] key = "enter" ->
              /\ IF handoffTarget >= 0 /\ handoffTarget < Len(Targets)
                    THEN LET target == Targets[handoffTarget + 1]
                         IN  /\ agents' = [agents EXCEPT ![target].HandoffContext =
                                    HandoffText(checkoutId, agents[checkoutId].LastOutput,
                                                Len(handoffLog) + 1)]
                             /\ handoffLog' = Append(handoffLog,
                                    [to |-> target, at |-> Len(runs)])
                    ELSE UNCHANGED <<agents, handoffLog>>
              /\ AdvanceCheckoutRun(3)
         [] OTHER ->
              /\ AdvanceCheckoutRun(3)
              /\ UNCHANGED <<agents, handoffLog>>
    /\ UNCHANGED <<Slots, Bench, selectedAgent, swapIndex, runs>>
    /\ partyKeep

\* handleMainPaneKeys, " " (model.go:930-935): swap mode, on the first
\* bench entry; every pushMode of the party keys is made in normal mode,
\* which is therefore what popMode returns to.
HandleMainPaneSpace ==
    /\ ~crashed /\ mode = "normal"
    /\ Len(Bench) > 0
    /\ mode' = "swap" /\ swapIndex' = 0
    /\ UNCHANGED <<Slots, Bench, selectedAgent, agents, checkoutId,
                   handoffTarget, runs, handoffLog, checkoutStep>>
    /\ partyKeep

\* A swap that leaves the bench as it is.
BenchKept(bench, k, old) == bench

\* "p.Bench[m.swapIndex] = old" (model.go:1031).
BenchAfterSwap(bench, k, old) == [bench EXCEPT ![k] = old]

\* handleSwapMode (model.go:1008-1046): esc leaves, left and right move
\* round the bench, " " and enter exchange the selected slot and the bench
\* entry, resize a running instance that comes in to the terminal size of
\* the layout as it is, go back to normal mode and recompute the layout;
\* a swapIndex outside the bench is an index out of range, and on a nil
\* bench entry the test of its Status is a nil dereference.
HandleSwapMode(key) ==
    /\ ~crashed /\ mode = "swap"
    /\ CASE key = "esc" ->
              /\ mode' = "normal"
              /\ UNCHANGED <<Slots, Bench, swapIndex, crashed, runs, layout, cards>>
         [] key = "left" ->
              /\ swapIndex' = IF swapIndex > 0 THEN swapIndex - 1
                                               ELSE Len(Bench) - 1
              /\ UNCHANGED <<Slots, Bench, mode, crashed, runs, layout, cards>>
         [] key = "right" ->
              /\ swapIndex' = IF swapIndex < Len(Bench) - 1 THEN swapIndex + 1
                                                            ELSE 0
              /\ UNCHANGED <<Slots, Bench, mode, crashed, runs, layout, cards>>
         [] OTHER ->
              IF Len(Bench) > 0 /\ swapIndex + 1 \notin DOMAIN Bench
                 THEN /\ crashed' = TRUE
                      /\ UNCHANGED <<Slots, Bench, swapIndex, mode, runs, layout, cards>>
              ELSE IF Len(Bench) > 0
                 THEN LET old     == Slots[selectedAgent]
                          swapped == Bench[swapIndex + 1]
                      IN  /\ Slots' = [Slots EXCEPT ![selectedAgent] = swapped]
                          /\ Bench' = BenchAfterSwap(Bench, swapIndex + 1, old)
                          /\ UNCHANGED swapIndex
                          /\ IF swapped = Nil
                                THEN /\ crashed' = TRUE
                                     /\ UNCHANGED <<mode, runs, layout, cards>>
                                ELSE /\ runs' = ResizeInst(runs, agents, swapped, layout)
                                     /\ mode' = "normal"
                                     /\ SetLayout(RecomputeLayout(window,
                                                      ActiveCount(Slots')))
                                     /\ UNCHANGED crashed
                 ELSE /\ mode' = "normal"
                      /\ SetLayout(RecomputeLayout(window, ActiveCount(Slots)))
                      /\ UNCHANGED <<Slots, Bench, swapIndex, crashed, runs>>
    /\ UNCHANGED <<selectedAgent, agents, checkoutId, handoffTarget,
                   handoffLog, checkoutStep>>
    /\ partyFrameButLayout

\* What the exits of this party's instances show.
PartyScreens == {<<>>, <<[k |-> "asc", n |-> 2001]>>}

\* buildParty (model.go:1439-1463) on a party file that names the first
\* inSlots instances in its slots and the others on its bench.
BuildSlots(inSlots) == [x \in SlotIndexes |-> IF x < inSlots THEN x + 1 ELSE Nil]

BuildBench(total, inSlots) == [k \in 1..(total - inSlots) |-> inSlots + k]

\* The program shows a party chosen among several, with inSlots of its
\* total instances in the slots; its project is not a git repository.
InitPartyOf(total, inSlots) ==
    /\ InitAgent /\ InitRosterIdle /\ InitCtxIdle /\ InitEquipIdle /\ InitComposeIdle /\ InitWorktreeIdle
    /\ InitGitIdle
    /\ Slots = BuildSlots(inSlots) /\ Bench = BuildBench(total, inSlots)
    /\ selectedAgent = 0 /\ swapIndex = 0
    /\ agents = [i \in 1..total |-> NewAgent(<<>>, <<>>)]
    /\ checkoutId = Nil /\ handoffTarget = -1
    /\ runs = <<>> /\ handoffLog = <<>>

\* A party with all its instances in the slots: their launches, exits and
\* checkouts.  The delayedResize commands of the launches are followed in
\* SpecRoster, and step by step in SpecResize.
InitParty == InitPartyOf(NumCrew, NumCrew)

NextParty ==
    \/ \E key \in {"left", "right"} : HandleMainPaneNav(key)
    \/ \E idx \in DigitKeys : HandleMainPaneDigit(idx)
    \/ HandleMainPaneStart
    \/ \E l \in DOMAIN runs, ok \in BOOLEAN : StartAgentProcessRun(l, ok)
    \/ \E l \in DOMAIN runs : HandleAgentStartedRun(l)
    \/ \E l \in DOMAIN runs : ChildExitsRun(l)
    \/ \E l \in DOMAIN runs, render \in PartyScreens : HandleAgentExitedRun(l, render)
    \/ \E l \in DOMAIN runs : CloseEmulatorRun(l)
    \/ \E key \in {"1", "esc"} : HandleCheckoutXPRun(key)
    \/ HandleCheckoutScrollRun
    \/ \E key \in {"up", "down", "enter", "esc"} : HandleCheckoutHandoffRun(key)

SpecParty == InitParty /\ [][NextParty]_vars

\* A party file with any number of its instances in the slots and the
\* others on the bench: moving about the slots and swapping, before an
\* agent is started and before the first WindowSizeMsg.  Swaps of running
\* instances in a sized window are followed in SpecRoster.
InitSwap == \E inSlots \in 0..NumAgents : InitPartyOf(NumAgents, inSlots)

NextSwap ==
    \/ \E key \in {"left", "right"} : HandleMainPaneNav(key)
    \/ \E idx \in DigitKeys : HandleMainPaneDigit(idx)
    \/ HandleMainPaneSpace
    \/ \E key \in {"esc", "left", "right", "enter"} : HandleSwapMode(key)

SpecSwap == InitSwap /\ [][NextSwap]_vars

(***************************************************************************)
(* Usage counters and the context scan (SpecContext)                       *)
(***************************************************************************)

\* The project is not a git repository: no launch has a worktree.
NoWorktree == ""

\* The sessions of the instance started automatically and from the main
\* pane, their output and their exits, with the usage counters.  The
\* teardown, forwarding and resize goroutines touch no counter and are left
\* to Spec, SpecForward and SpecResize; the keystrokes of insert mode,
\* which add their length to ContextBytes (model.go:1001), are followed in
\* SpecForward.
NextContext ==
    \/ HandleResizeAutoStart
    \/ HandleMainPaneKeyS
    \/ \E s \in Sessions : StartAgentProcessOk(s, NoWorktree)
    \/ \E s \in Sessions : HandleAgentStarted(s)
    \/ \E s \in Sessions : ReadReturnsData(s)
    \/ \E n \in BytesReads, sc \in CtxScreens :
          OutputsBelow(MaxOutputs) /\ HandleAgentOutput(n, sc)
    \/ \E s \in Sessions : ProcessExits(s)
    \/ \E s \in Sessions : ReadReturnsError(s)
    \/ \E o \in Origins : HandleAgentExited(o)
    \/ HandleCheckoutXP(FALSE)
    \/ HandleCheckoutHandoff

SpecContext == Init /\ [][NextContext]_vars

(***************************************************************************)
(* The party list, the agent index and party deletion (SpecRoster)         *)
(***************************************************************************)

\* Agents of the forge configuration.
NumConfigAgents == 2
\* Parties built in one run, from party files and by the wizard.
MaxParties == 2
\* Launches autoStartPartyAgents makes in one run.
MaxRosterRuns == 2
\* delayedResize commands that get past their first sleep in one run.
MaxJiggles == 1

ConfigAgents == 1..NumConfigAgents

\* Party names: the party files of a run carry the first of them, one
\* each, and the user types any of them in the wizard, which takes every
\* non-empty name (wizard.go:115-121).
PartyNames == <<"alpha", "beta">>

\* w.SelectedAgents when the wizard is finalized: at least one agent
\* (wizard.go:238), at most MaxPartySlots, each at most once
\* (wizard.go:224-236), in the order they were picked.  The selections
\* followed are those that begin with the first agent or take every agent
\* from the last one back.
Selections ==
    {sel \in SeqsUpTo(ConfigAgents, NumConfigAgents) :
        /\ Len(sel) > 0 /\ Len(sel) <= MaxPartySlots
        /\ \A i, j \in DOMAIN sel : sel[i] = sel[j] => i = j
        /\ \/ Len(sel) = 1 /\ sel[1] = 1
           \/ /\ Len(sel) = NumConfigAgents
              /\ \A i \in DOMAIN sel : sel[i] = NumConfigAgents + 1 - i}

\* The agents the party file puts on the bench: those of the configuration
\* that were not selected, in configuration order (wizard.go:278-291).
RECURSIVE BenchFrom(_, _)
BenchFrom(sel, a) ==
    IF a > NumConfigAgents THEN <<>>
    ELSE (IF \E i \in DOMAIN sel : sel[i] = a THEN <<>> ELSE <<a>>)
         \o BenchFrom(sel, a + 1)

\* Parties built so far; each builds one instance per configured agent.
Built == Len(agents) \div NumConfigAgents

\* The AgentInstance buildInstance allocates for agent a of the party built
\* as number serial (model.go:1497): a new object each time.
NewInst(serial, a) == (serial - 1) * NumConfigAgents + a

\* The ID buildInstance gives it (model.go:1498): the party name, the
\* position idx and the agent name.
InstanceID(partyName, idx, a) == [party |-> partyName, idx |-> idx, agent |-> a]

\* Where list holds a.
PosIn(list, a) == CHOOSE k \in DOMAIN list : list[k] = a

\* The IDs of the instances buildParty makes (model.go:1451-1460): slot i
\* has position i, bench entry i position 4+i.
BuiltIDs(partyName, sel) ==
    [a \in ConfigAgents |->
        IF \E k \in DOMAIN sel : sel[k] = a
           THEN InstanceID(partyName, PosIn(sel, a) - 1, a)
           ELSE InstanceID(partyName, 4 + PosIn(BenchFrom(sel, 1), a) - 1, a)]

\* buildParty (model.go:1439-1463) on the party file of a selection.
BuildPartyOf(partyName, serial, sel) ==
    [Name   |-> partyName,
     Slots  |-> [x \in SlotIndexes |->
                    IF x < Len(sel) THEN NewInst(serial, sel[x + 1]) ELSE Nil],
     Bench  |-> [k \in 1..Len(BenchFrom(sel, 1)) |->
                    NewInst(serial, BenchFrom(sel, 1)[k])]]

\* The instances in the slots and on the bench of a party.
PartyInsts(p) ==
    ({p.Slots[x] : x \in SlotIndexes} \cup {p.Bench[k] : k \in DOMAIN p.Bench})
        \ {Nil}

\* The non-nil entries of a list of instances, in order.
RECURSIVE NonNil(_)
NonNil(list) ==
    IF list = <<>> THEN <<>>
    ELSE (IF Head(list) = Nil THEN <<>> ELSE <<Head(list)>>) \o NonNil(Tail(list))

\* The instances in the order rebuildAgentIndex visits them: party by
\* party, the slots and then the bench (model.go:318-329).
RECURSIVE IndexOrder(_)
IndexOrder(ps) ==
    IF ps = <<>> THEN <<>>
    ELSE NonNil([k \in 1..MaxPartySlots |-> Head(ps).Slots[k - 1]])
         \o NonNil(Head(ps).Bench) \o IndexOrder(Tail(ps))

\* rebuildAgentIndex (model.go:316-331): the map from ID to instance; of
\* the instances with one ID the last one visited stays.
RebuildAgentIndex(ps, ids) ==
    LET order == IndexOrder(ps)
    IN  {[id |-> ids[order[k]], inst |-> order[k]] :
            k \in {j \in DOMAIN order :
                      \A later \in DOMAIN order :
                          later > j => ids[order[later]] # ids[order[j]]}}

\* agentByID (model.go:297-314): m.agentIndex is never nil after
\* initialModel, so only the index is consulted.
AgentByID(id) ==
    IF \E e \in agentIndex : e.id = id
       THEN (CHOOSE e \in agentIndex : e.id = id).inst
       ELSE Nil

\* party() (model.go:264-270) is not nil.
HasParty(ps, act) == act >= 0 /\ act < Len(ps)

\* p.Slots of the party party() returns, no slot when it returns nil.
ActiveSlots(ps, act) ==
    IF HasParty(ps, act) THEN ps[act + 1].Slots ELSE [x \in SlotIndexes |-> Nil]

\* The idle instances in the slots of party p, in slot order, as
\* autoStartPartyAgents finds them (wizard.go:317-322).
RECURSIVE IdleFrom(_, _, _)
IdleFrom(p, ag, x) ==
    IF x \notin SlotIndexes THEN <<>>
    ELSE (IF p.Slots[x] # Nil /\ ag[p.Slots[x]].Status = "idle"
             THEN <<p.Slots[x]>> ELSE <<>>)
         \o IdleFrom(p, ag, x + 1)

\* autoStartPartyAgents (wizard.go:306-330) on the party list ps with
\* active party act, instances ag and launches rs: startAgent with the
\* terminal size of the layout as it is for every idle instance in a slot.
AutoStartPartyAgents(ps, act, ag, rs, size) ==
    LET idle == IF HasParty(ps, act) THEN IdleFrom(ps[act + 1], ag, 0) ELSE <<>>
    IN  /\ Len(rs) + Len(idle) <= MaxRosterRuns
        /\ runs' = rs \o [k \in 1..Len(idle) |->
                             NewRun(idle[k], ag[idle[k]].HandoffContext, size)]
        /\ agents' = [i \in DOMAIN ag |->
                         IF \E k \in DOMAIN idle : idle[k] = i
                            THEN ConsumeHandoff(ag[i]) ELSE ag[i]]

\* The resize loop over the slots (model.go:551-559, 857-870).
RECURSIVE ResizeSlots(_, _, _, _, _)
ResizeSlots(rs, ag, slots, size, x) ==
    IF x \notin SlotIndexes THEN rs
    ELSE ResizeSlots(IF slots[x] # Nil THEN ResizeInst(rs, ag, slots[x], size)
                                       ELSE rs,
                     ag, slots, size, x + 1)

\* What the steps on the party list leave alone.
rosterFrame ==
    /\ UNCHANGED instVars /\ UNCHANGED resVars /\ UNCHANGED msgVars
    /\ UNCHANGED <<checkoutAgent, checkoutStep, coreWrite, writeLen, launched, launch,
                   startedWt, fwd, td>>
    /\ UNCHANGED launchSize /\ UNCHANGED geoVars
    /\ UNCHANGED <<equipVars, composeVars, worktreeVars, ctxVars>>
    /\ UNCHANGED <<Branch, startedBr, cleanups>>
    /\ UNCHANGED <<wtReg, index, merged, setupPc, gitLog, workDir,
                   partyDeleted, partyCleanup>>
    /\ UNCHANGED <<Slots, Bench, checkoutId, handoffTarget, handoffLog>>

\* No handler of the core is inside a resize loop.
CoreIdle == \A l \in DOMAIN runs : runs[l].emTo = NoSize

\* The first message the core handles is the WindowSizeMsg of start-up,
\* and it handles one message at a time.
Ready == ~crashed /\ CoreIdle /\ window # NoWindow

\* Keys go to handleNormalMode: no delete confirmation, no wizard
\* (model.go:514-533).
NormalKeys == Ready /\ ~deleteConfirm /\ wizard = "none" /\ mode = "normal"

\* Window sizes <<width, height>> of the terminal.
Windows == {<<70, 30>>}

\* handleResize (model.go:541-567) for a WindowSizeMsg: the layout is
\* recomputed, the running instances in the slots of the active party are
\* resized and, the first time in a run with one party file,
\* autoStartPartyAgents starts its agents.
HandleResizeRoster(win) ==
    /\ ~crashed /\ CoreIdle
    /\ window' = win
    /\ LET lc      == RecomputeLayout(win, ActiveCount(ActiveSlots(parties, activeParty)))
           resized == ResizeSlots(runs, agents, ActiveSlots(parties, activeParty),
                                  TermSize(lc), 0)
       IN  /\ SetLayout(lc)
           /\ IF autoStartPending
                 THEN /\ autoStartPending' = FALSE
                      /\ AutoStartPartyAgents(parties, activeParty, agents,
                                              resized, TermSize(lc))
                 ELSE /\ runs' = resized
                      /\ UNCHANGED <<agents, autoStartPending>>
    /\ UNCHANGED <<parties, activeParty, agentIndex, wizard, termed, instID, quit>>
    /\ UNCHANGED <<mode, selectedAgent, swapIndex, deleteConfirm, crashed>>
    /\ rosterFrame

\* wizardChooseParty (wizard.go:77-110) with w.Cursor at cursor.  enter: an
\* existing party becomes the active one and its agents are started, and
\* on "Create New" the wizard goes on to make a party; q, ctrl+c and esc
\* end the program.
WizardChooseParty(key, cursor) ==
    /\ Ready /\ ~deleteConfirm
    /\ wizard = "choose"
    /\ IF key = "enter"
          THEN /\ IF cursor < Len(parties)
                     THEN /\ activeParty' = cursor
                          /\ selectedAgent' = 0
                          /\ wizard' = "none"
                          /\ AutoStartPartyAgents(parties, cursor, agents, runs, layout)
                     ELSE /\ wizard' = "create"
                          /\ UNCHANGED <<activeParty, selectedAgent, agents, runs>>
               /\ UNCHANGED quit
          ELSE /\ quit' = TRUE
               /\ UNCHANGED <<activeParty, selectedAgent, wizard, agents, runs>>
    /\ UNCHANGED <<parties, agentIndex, termed, instID, window>>
    /\ UNCHANGED <<layout, cards>>
    /\ UNCHANGED <<mode, swapIndex, deleteConfirm, autoStartPending, crashed>>
    /\ rosterFrame

\* createNewParty (model.go:1376-1385): the wizard opens at the name, with
\* CancelToNormal set.
CreateNewParty == wizard' = "inline"

\* handleLeftPanelKeys, "n" (model.go:839-840).
HandleLeftPanelKeyN ==
    /\ NormalKeys
    /\ CreateNewParty
    /\ UNCHANGED <<parties, activeParty, agentIndex, termed, instID, window, quit>>
    /\ UNCHANGED <<agents, runs, layout, cards>>
    /\ UNCHANGED <<mode, selectedAgent, swapIndex, deleteConfirm,
                   autoStartPending, crashed>>
    /\ rosterFrame

\* The wizard is at one of the steps that make a party.
Creating == wizard \in {"create", "inline"}

\* wizardNameParty, esc (wizard.go:128-138): back to the model when the
\* wizard was opened from it, to the chooser when there are parties, and
\* out of the program otherwise.
WizardNameEsc ==
    /\ Ready /\ ~deleteConfirm
    /\ Creating
    /\ IF wizard = "inline"
          THEN wizard' = "none" /\ UNCHANGED quit
          ELSE IF Len(parties) > 0
                  THEN wizard' = "choose" /\ UNCHANGED quit
                  ELSE quit' = TRUE /\ UNCHANGED wizard
    /\ UNCHANGED <<parties, activeParty, agentIndex, termed, instID, window>>
    /\ UNCHANGED <<agents, runs, layout, cards>>
    /\ UNCHANGED <<mode, selectedAgent, swapIndex, deleteConfirm,
                   autoStartPending, crashed>>
    /\ rosterFrame

\* ctrl+c at the steps that make a party: wizardNameParty (wizard.go:144-145),
\* wizardSelectProject (wizard.go:202-203), wizardAddAgents
\* (wizard.go:246-247) and wizardFinalizeKeys (wizard.go:259-260) return
\* tea.Quit; no child is signalled.
WizardKeyCtrlC ==
    /\ Ready /\ ~deleteConfirm
    /\ Creating
    /\ quit' = TRUE
    /\ UNCHANGED <<parties, activeParty, agentIndex, wizard, termed, instID, window>>
    /\ UNCHANGED <<agents, runs, layout, cards>>
    /\ UNCHANGED <<mode, selectedAgent, swapIndex, deleteConfirm,
                   autoStartPending, crashed>>
    /\ rosterFrame

\* doFinalizeWizard (wizard.go:267-304) for the name and the selection sel:
\* the party is built and appended, becomes the active one and its agents
\* are started.  m.agentIndex and m.layout are left as they are.
DoFinalizeWizard(partyName, sel) ==
    /\ Ready /\ ~deleteConfirm
    /\ Creating
    /\ Built < MaxParties
    /\ parties' = Append(parties, BuildPartyOf(partyName, Built + 1, sel))
    /\ instID' = instID \o BuiltIDs(partyName, sel)
    /\ activeParty' = Len(parties)
    /\ selectedAgent' = 0
    /\ wizard' = "none"
    /\ mode' = "normal"
    /\ AutoStartPartyAgents(parties', Len(parties),
           agents \o [a \in ConfigAgents |-> NewAgent(<<>>, <<>>)], runs, layout)
    /\ UNCHANGED <<agentIndex, termed, window, quit>>
    /\ UNCHANGED <<layout, cards>>
    /\ UNCHANGED <<swapIndex, deleteConfirm, autoStartPending, crashed>>
    /\ rosterFrame

\* handleAgentStarted (model.go:605-623) for the message of launch l, which
\* carries the ID of the instance it was started for: the handles go to
\* the instance agentByID finds for that ID; when it finds none the
\* message is dropped with the handles it carries and nothing is
\* returned.  Otherwise delayedResize is returned for the instance found
\* and the terminal size of the layout as it is; the reads of the PTY are
\* followed in Spec.
HandleAgentStartedRoster(l) ==
    /\ Ready
    /\ runs[l].st = "started"
    /\ LET inst == AgentByID(instID[runs[l].inst])
       IN  IF inst # Nil
              THEN /\ agents' = [agents EXCEPT ![inst] =
                                    [@ EXCEPT !.cmd = l, !.ptyFile = l, !.emulator = l,
                                              !.Worktree = "", !.Status = "running"]]
                   /\ runs' = [runs EXCEPT ![l].st = "live",
                                           ![l].jig = DelayedResize(inst, layout)]
              ELSE /\ runs' = [runs EXCEPT ![l].st = "dropped"]
                   /\ UNCHANGED agents
    /\ UNCHANGED <<parties, activeParty, agentIndex, wizard, termed, instID,
                   window, quit>>
    /\ UNCHANGED <<layout, cards>>
    /\ UNCHANGED <<mode, selectedAgent, swapIndex, deleteConfirm,
                   autoStartPending, crashed>>
    /\ rosterFrame

\* handleLeftPanelKeys after its switch (model.go:850-853), the active
\* party being to: when it is another than before, recomputeLayout and
\* resizeActivePartyAgents (model.go:857-870).
LeftPanelShow(to) ==
    /\ activeParty' = to
    /\ IF to # activeParty
          THEN LET lc == RecomputeLayout(window, ActiveCount(ActiveSlots(parties, to)))
               IN  /\ SetLayout(lc)
                   /\ runs' = ResizeSlots(runs, agents, ActiveSlots(parties, to),
                                          TermSize(lc), 0)
          ELSE UNCHANGED <<layout, cards, runs>>

\* handleLeftPanelKeys, up and down (model.go:826-836).
HandleLeftPanelNav(key) ==
    /\ NormalKeys
    /\ LET to == IF key = "up"
                    THEN (IF activeParty > 0 THEN activeParty - 1 ELSE activeParty)
                    ELSE (IF activeParty < Len(parties) - 1 THEN activeParty + 1
                                                            ELSE activeParty)
       IN  /\ LeftPanelShow(to)
           /\ selectedAgent' = IF to # activeParty THEN 0 ELSE selectedAgent
    /\ UNCHANGED <<parties, agentIndex, wizard, termed, instID, window, quit, agents>>
    /\ UNCHANGED <<mode, swapIndex, deleteConfirm, autoStartPending, crashed>>
    /\ rosterFrame

\* The digit keys "1" to "9" as party indexes (model.go:843-844).
PartyDigits == 0..8

\* handleLeftPanelKeys, a digit key for party index idx (model.go:843-848).
HandleLeftPanelDigit(idx) ==
    /\ NormalKeys
    /\ IF idx < Len(parties)
          THEN LeftPanelShow(idx) /\ selectedAgent' = 0
          ELSE UNCHANGED <<activeParty, selectedAgent, layout, cards, runs>>
    /\ UNCHANGED <<parties, agentIndex, wizard, termed, instID, window, quit, agents>>
    /\ UNCHANGED <<mode, swapIndex, deleteConfirm, autoStartPending, crashed>>
    /\ rosterFrame

\* agent() (model.go:271-280) on the party list.
AgentOf(ps, act, sel) ==
    IF HasParty(ps, act) /\ sel \in SlotIndexes THEN ps[act + 1].Slots[sel] ELSE Nil

\* lastSlotIndex (model.go:282-295) on the party list.
LastSlotIndexOf(slots) ==
    LET used == {x \in SlotIndexes : slots[x] # Nil}
    IN  IF used = {} THEN 0 ELSE CHOOSE x \in used : \A y \in used : y <= x

\* Where the left button is pressed: <<X, Y>> of the MouseMsg.
Clicks == {<<5, 3>>, <<5, 6>>, <<5, 9>>, <<5, 12>>,
           <<30, 2>>, <<30, 12>>, <<30, 22>>}

\* handleMouse (model.go:706-771) for a press of the left button at
\* <<x, y>>, which Update hands over in every mode unless the wizard is
\* open (model.go:508-512): a party of the list becomes the active one,
\* with no new layout; "+ New Party" opens the wizard; the terminal takes
\* the keys of a running agent; a card of the party bar is selected.
HandleMouse(x, y) ==
    /\ Ready
    /\ wizard = "none"
    /\ LET panelRight == leftPanelWidth + 1
           termTop    == 1
           termBottom == termTop + layout[1] + 1
       IN  IF x < panelRight /\ y > 0
              THEN LET entryY   == y - termTop - 2
                       partyIdx == entryY \div 3
                   IN  IF entryY >= 0 /\ partyIdx < Len(parties)
                          THEN /\ activeParty' = partyIdx
                               /\ selectedAgent' = 0
                               /\ UNCHANGED <<wizard, mode>>
                          ELSE IF entryY >= 0 /\ partyIdx = Len(parties)
                                  THEN /\ CreateNewParty
                                       /\ UNCHANGED <<activeParty, selectedAgent, mode>>
                                  ELSE UNCHANGED <<activeParty, selectedAgent,
                                                   wizard, mode>>
              ELSE IF y >= termTop /\ y <= termBottom /\ x >= panelRight
                      THEN LET inst == AgentOf(parties, activeParty, selectedAgent)
                           IN  /\ mode' = IF /\ inst # Nil
                                             /\ agents[inst].Status = "running"
                                             /\ mode = "normal"
                                             THEN "insert" ELSE mode
                               /\ UNCHANGED <<activeParty, selectedAgent, wizard>>
                      ELSE IF y > termBottom /\ x >= panelRight
                              THEN LET cardStart == panelRight + 5
                                       colIdx == (x - cardStart) \div (cards.CardWidth + 2)
                                       rowIdx == (y - (termBottom + 1))
                                                     \div (cards.CardHeight + 2)
                                       idx    == rowIdx * cards.CardsPerRow + colIdx
                                   IN  /\ selectedAgent' =
                                            IF /\ x >= cardStart
                                               /\ colIdx < cards.CardsPerRow
                                               /\ idx <= LastSlotIndexOf(
                                                    ActiveSlots(parties, activeParty))
                                               THEN idx ELSE selectedAgent
                                       /\ UNCHANGED <<activeParty, wizard, mode>>
                              ELSE UNCHANGED <<activeParty, selectedAgent, wizard, mode>>
    /\ UNCHANGED <<parties, agentIndex, termed, instID, window, quit>>
    /\ UNCHANGED <<agents, runs, layout, cards>>
    /\ UNCHANGED <<swapIndex, deleteConfirm, autoStartPending, crashed>>
    /\ rosterFrame

\* handleInsertMode (model.go:987-1004) on the party list: esc pops the
\* mode, any other key goes to the PTY of the selected instance, and to
\* normal mode when there is none.  What is written is followed in
\* SpecForward.
HandleInsertModeRoster(key) ==
    /\ Ready /\ ~deleteConfirm /\ wizard = "none" /\ mode = "insert"
    /\ LET inst == AgentOf(parties, activeParty, selectedAgent)
       IN  mode' = IF key = "esc" \/ inst = Nil THEN "normal"
                   ELSE IF agents[inst].ptyFile = Nil THEN "normal" ELSE mode
    /\ UNCHANGED <<parties, activeParty, agentIndex, wizard, termed, instID,
                   window, quit>>
    /\ UNCHANGED <<agents, runs, layout, cards>>
    /\ UNCHANGED <<selectedAgent, swapIndex, deleteConfirm, autoStartPending, crashed>>
    /\ rosterFrame

\* The children doDeleteParty signals (model.go:1410-1414): those of the
\* running instances in the slots of the party.
SignalledByDelete(p) ==
    {agents[p.Slots[x]].cmd :
        x \in {y \in SlotIndexes : /\ p.Slots[y] # Nil
                                   /\ agents[p.Slots[y]].Status = "running"
                                   /\ agents[p.Slots[y]].cmd # Nil}}

\* The party list without the party at index act.
WithoutParty(ps, act) ==
    [k \in 1..(Len(ps) - 1) |-> IF k <= act THEN ps[k] ELSE ps[k + 1]]

\* doDeleteParty (model.go:1405-1427) on the model: the layout is recomputed
\* for the party that is the active one now, and the index rebuilt; the
\* goroutine it starts on the worktrees of the party is followed in
\* SpecIsolation.
DoDeletePartyRoster ==
    IF HasParty(parties, activeParty)
       THEN LET left == WithoutParty(parties, activeParty)
                act  == IF activeParty >= Len(left) THEN Len(left) - 1
                                                    ELSE activeParty
            IN  /\ termed' = termed \cup SignalledByDelete(parties[activeParty + 1])
                /\ parties' = left
                /\ activeParty' = act
                /\ selectedAgent' = 0
                /\ deleteConfirm' = FALSE
                /\ SetLayout(RecomputeLayout(window,
                                 ActiveCount(ActiveSlots(left, act))))
                /\ agentIndex' = RebuildAgentIndex(left, instID)
       ELSE UNCHANGED <<termed, parties, activeParty, selectedAgent,
                        deleteConfirm, layout, cards, agentIndex>>

\* handleLeftPanelKeys, "d" (model.go:841-842): deleteParty
\* (model.go:1387-1403) keeps the last party, asks for confirmation when an
\* instance in a slot is running and deletes otherwise.
HandleLeftPanelKeyDRoster ==
    /\ NormalKeys
    /\ IF Len(parties) <= 1 \/ ~HasParty(parties, activeParty)
          THEN UNCHANGED <<termed, parties, activeParty, selectedAgent,
                           deleteConfirm, layout, cards, agentIndex>>
          ELSE IF \E x \in SlotIndexes :
                     /\ parties[activeParty + 1].Slots[x] # Nil
                     /\ agents[parties[activeParty + 1].Slots[x]].Status = "running"
                  THEN /\ deleteConfirm' = TRUE
                       /\ UNCHANGED <<termed, parties, activeParty,
                                      selectedAgent, layout, cards, agentIndex>>
                  ELSE DoDeletePartyRoster
    /\ UNCHANGED <<wizard, instID, window, quit, agents, runs>>
    /\ UNCHANGED <<mode, swapIndex, autoStartPending, crashed>>
    /\ rosterFrame

\* handleDeleteConfirm (model.go:1429-1437), which gets the keys while the
\* confirmation is open, wizard or not (model.go:515-517): y deletes, n
\* does not.
HandleDeleteConfirmRoster(yes) ==
    /\ Ready
    /\ deleteConfirm
    /\ IF yes
          THEN DoDeletePartyRoster
          ELSE /\ deleteConfirm' = FALSE
               /\ UNCHANGED <<termed, parties, activeParty, selectedAgent,
                              layout, cards, agentIndex>>
    /\ UNCHANGED <<wizard, instID, window, quit, agents, runs>>
    /\ UNCHANGED <<mode, swapIndex, autoStartPending, crashed>>
    /\ rosterFrame

\* The running instances stopAllAgents signals (model.go:1650-1665): those
\* in the slots and on the bench of every party that hold a child.
StoppedByQuit ==
    {i \in UNION {PartyInsts(parties[k]) : k \in DOMAIN parties} :
        agents[i].Status = "running" /\ agents[i].cmd # Nil}

\* handleNormalMode, "q" and ctrl+c (model.go:777-779): stopAllAgents
\* signals the children and marks their instances exited, and the program
\* quits.
HandleQuit ==
    /\ NormalKeys
    /\ termed' = termed \cup {agents[i].cmd : i \in StoppedByQuit}
    /\ agents' = [i \in DOMAIN agents |->
                     IF i \in StoppedByQuit
                        THEN [agents[i] EXCEPT !.Status = "exited"]
                        ELSE agents[i]]
    /\ quit' = TRUE
    /\ UNCHANGED <<parties, activeParty, agentIndex, wizard, instID, window>>
    /\ UNCHANGED <<runs, layout, cards>>
    /\ UNCHANGED <<mode, selectedAgent, swapIndex, deleteConfirm,
                   autoStartPending, crashed>>
    /\ rosterFrame

\* handleMainPaneKeys, " " (model.go:930-935).
HandleMainPaneSpaceRoster ==
    /\ NormalKeys
    /\ IF HasParty(parties, activeParty) /\ Len(parties[activeParty + 1].Bench) > 0
          THEN mode' = "swap" /\ swapIndex' = 0
          ELSE UNCHANGED <<mode, swapIndex>>
    /\ UNCHANGED <<parties, activeParty, agentIndex, wizard, termed, instID,
                   window, quit>>
    /\ UNCHANGED <<agents, runs, layout, cards>>
    /\ UNCHANGED <<selectedAgent, deleteConfirm, autoStartPending, crashed>>
    /\ rosterFrame

\* handleSwapMode (model.go:1008-1046) on the active party of the list: the
\* bench entry at swapIndex comes in, is resized when it is running, and
\* the layout is recomputed.  An index that is outside the bench and a nil
\* bench entry that comes in end the program.
HandleSwapModeRoster(key) ==
    /\ Ready /\ ~deleteConfirm /\ wizard = "none" /\ mode = "swap"
    /\ IF ~HasParty(parties, activeParty) \/ key = "esc"
          THEN /\ mode' = "normal"
               /\ UNCHANGED <<parties, crashed, swapIndex, runs, layout, cards>>
          ELSE LET p == parties[activeParty + 1]
               IN  CASE key = "left" ->
                          /\ swapIndex' = IF swapIndex > 0 THEN swapIndex - 1
                                                           ELSE Len(p.Bench) - 1
                          /\ UNCHANGED <<parties, crashed, mode, runs, layout, cards>>
                     [] key = "right" ->
                          /\ swapIndex' = IF swapIndex < Len(p.Bench) - 1
                                             THEN swapIndex + 1 ELSE 0
                          /\ UNCHANGED <<parties, crashed, mode, runs, layout, cards>>
                     [] OTHER ->
                          IF Len(p.Bench) = 0
                             THEN /\ mode' = "normal"
                                  /\ SetLayout(RecomputeLayout(window,
                                                   ActiveCount(p.Slots)))
                                  /\ UNCHANGED <<parties, crashed, swapIndex, runs>>
                             ELSE IF swapIndex + 1 \notin DOMAIN p.Bench
                                     THEN /\ crashed' = TRUE
                                          /\ UNCHANGED <<parties, mode, swapIndex,
                                                         runs, layout, cards>>
                                     ELSE LET old     == p.Slots[selectedAgent]
                                              swapped == p.Bench[swapIndex + 1]
                                              slots   == [p.Slots EXCEPT
                                                             ![selectedAgent] = swapped]
                                          IN  /\ parties' =
                                                   [parties EXCEPT ![activeParty + 1] =
                                                      [p EXCEPT
                                                         !.Slots = slots,
                                                         !.Bench = BenchAfterSwap(
                                                             p.Bench, swapIndex + 1, old)]]
                                              /\ UNCHANGED swapIndex
                                              /\ IF swapped = Nil
                                                    THEN /\ crashed' = TRUE
                                                         /\ UNCHANGED <<mode, runs,
                                                                        layout, cards>>
                                                    ELSE /\ runs' = ResizeInst(runs, agents,
                                                                        swapped, layout)
                                                         /\ mode' = "normal"
                                                         /\ SetLayout(RecomputeLayout(
                                                                window, ActiveCount(slots)))
                                                         /\ UNCHANGED crashed
    /\ UNCHANGED <<activeParty, agentIndex, wizard, termed, instID, window, quit>>
    /\ UNCHANGED <<agents, selectedAgent, deleteConfirm, autoStartPending>>
    /\ rosterFrame

\* The party files of a run: none (the wizard opens to make a party), one
\* (it is shown and started with the first WindowSizeMsg) or several (the
\* wizard opens to choose one), as initialModel builds them (part_000:58-103);
\* the index is built from them.
InitRosterOf(sels) ==
    /\ InitModel /\ InitCtxIdle /\ InitEquipIdle /\ InitComposeIdle
    /\ InitWorktreeIdle /\ InitGitIdle
    /\ Slots = <<>> /\ Bench = <<>>
    /\ selectedAgent = 0 /\ swapIndex = 0
    /\ checkoutId = Nil /\ handoffTarget = -1
    /\ runs = <<>> /\ handoffLog = <<>>
    /\ parties = [k \in 1..Len(sels) |-> BuildPartyOf(PartyNames[k], k, sels[k])]
    /\ agents = [i \in 1..(Len(sels) * NumConfigAgents) |-> NewAgent(<<>>, <<>>)]
    /\ instID = [i \in 1..(Len(sels) * NumConfigAgents) |->
                    LET k == (i - 1) \div NumConfigAgents + 1
                    IN  BuiltIDs(PartyNames[k], sels[k])[i - (k - 1) * NumConfigAgents]]
    /\ agentIndex = RebuildAgentIndex(parties, instID)
    /\ activeParty = 0
    /\ autoStartPending = (Len(sels) = 1)
    /\ wizard = CASE Len(sels) = 0 -> "create"
                  [] Len(sels) = 1 -> "none"
                  [] OTHER -> "choose"
    /\ termed = {}
    /\ window = NoWindow /\ cards = NoCards /\ quit = FALSE

InitRoster == \E sels \in SeqsUpTo(Selections, MaxParties) : InitRosterOf(sels)

\* The program has not quit.
NextRoster ==
    /\ ~quit
    /\ \/ \E win \in Windows : HandleResizeRoster(win)
       \/ \E key \in {"enter", "esc"}, cursor \in 0..MaxParties :
             WizardChooseParty(key, cursor)
       \/ HandleLeftPanelKeyN
       \/ WizardNameEsc
       \/ WizardKeyCtrlC
       \/ \E k \in DOMAIN PartyNames, sel \in Selections :
             DoFinalizeWizard(PartyNames[k], sel)
       \/ \E l \in DOMAIN runs : StartAgentProcessRun(l, TRUE)
       \/ \E l \in DOMAIN runs : HandleAgentStartedRoster(l)
       \/ \E l \in DOMAIN runs : JigglesBelow(MaxJiggles) /\ DelayedResizeWake(l)
       \/ \E l \in DOMAIN runs : DelayedResizeSetsize(l)
       \/ \E l \in DOMAIN runs : DelayedResizeEmulator(l)
       \/ \E l \in DOMAIN runs : CoreResizeEmulatorRun(l)
       \/ \E key \in {"up", "down"} : HandleLeftPanelNav(key)
       \/ \E idx \in PartyDigits : HandleLeftPanelDigit(idx)
       \/ \E c \in Clicks : HandleMouse(c[1], c[2])
       \/ \E key \in {"esc", "a"} : HandleInsertModeRoster(key)
       \/ HandleLeftPanelKeyDRoster
       \/ \E yes \in BOOLEAN : HandleDeleteConfirmRoster(yes)
       \/ HandleQuit
       \/ HandleMainPaneSpaceRoster
       \/ \E key \in {"esc", "left", "right", "enter"} : HandleSwapModeRoster(key)

SpecRoster == InitRoster /\ [][NextRoster]_vars

\* The three handles of the instance are always those of one session.
HandlesTogether == cmd = ptyFile /\ ptyFile = emulator

TypeOK ==
    /\ Status \in {"idle", "running", "exited"}
    /\ cmd \in Origins /\ ptyFile \in Origins /\ emulator \in Origins
    /\ mode \in {"normal", "insert", "charsheet", "palette", "checkout"}
    /\ checkoutStep \in 0..3
    /\ launched \in 0..MaxLaunch
    /\ \A s \in Sessions : reads[s] \in 0..MaxLaunch
    /\ outMsgs \in 0..MaxLaunch
    /\ \A s \in Sessions : td[s] \in {"none", "closeEm", "closePty", "wait", "done"}


(***************************************************************************)
(* Properties                                                              *)
(***************************************************************************)

\* Sessions handed to the instance by handleAgentStarted whose PTY has not
\* been closed by a teardown yet.
LiveInstalled == {s \in Sessions : launch[s] = "done" /\ pty[s] = "open"}

\* Launch commands issued and not yet answered by a handled message.
LaunchesInFlight == {s \in Sessions : launch[s] \in {"running", "started", "failed"}}

ExitPending == \E o \in Origins : exitMsgs[o] > 0

RECURSIVE SumReads(_)
SumReads(n) == IF n = 0 THEN 0 ELSE reads[n] + SumReads(n - 1)

\* Number of readAgentPTY commands outstanding for the instance.
OutstandingReads == SumReads(MaxLaunch)

\* C1: the instance has at most one live process/PTY/emulator triple:
\* handleAgentStarted never installs the handles of a new session while a
\* session installed earlier has not been torn down.
C1_OneLiveTriple == Cardinality(LiveInstalled) <= 1

\* C2: at most one launch is in flight for the instance between a start
\* request and the AgentStartedMsg / AgentExitedMsg that answers it.
C2_OneLaunchInFlight == Cardinality(LaunchesInFlight) <= 1

\* C3: a running instance holds all three handles and an idle instance
\* holds none.
C3_StatusMatchesHandles ==
    /\ Status = "running" => cmd # Nil /\ ptyFile # Nil /\ emulator # Nil
    /\ Status = "idle" => cmd = Nil /\ ptyFile = Nil /\ emulator = Nil

\* C4: Status only moves idle->running, running->exited, exited->idle and
\* idle->exited, and a running instance never has its handles replaced by
\* a second running->running step.
C4_OnlyAllowedTransitions ==
    [][ /\ Status' # Status =>
             <<Status, Status'>> \in {<<"idle", "running">>, <<"running", "exited">>,
                                      <<"exited", "idle">>, <<"idle", "exited">>}
        /\ (Status = "running" /\ Status' = "running") =>
             UNCHANGED <<cmd, ptyFile, emulator>> ]_vars

\* C5: at most one readAgentPTY operation is outstanding for the instance.
C5_OneOutstandingRead == OutstandingReads <= 1

\* C6: while the instance holds an open PTY and no exit has been processed
\* for it, the read pump is alive: a read is outstanding on that PTY, or
\* the message of a completed read is on its way to the core.
C6_ReadPumpAlive ==
    \A s \in Sessions :
        (ptyFile = s /\ pty[s] = "open") =>
            (reads[s] > 0 \/ outMsgs > 0 \/ ExitPending)

\* Nothing is left to happen for the agent: no launch, read or message is
\* pending and no cleanup goroutine is under way.
Quiescent ==
    /\ LaunchesInFlight = {}
    /\ OutstandingReads = 0 /\ outMsgs = 0 /\ ~ExitPending
    /\ \A s \in Sessions : td[s] \in {"none", "done"}

\* C7: once an explicitly stopped child has terminated and everything
\* pending has been processed, its exit has been handled: the handles are
\* cleared and the ordered teardown has released them.
C7_StoppedSessionReleased ==
    \A s \in Sessions :
        (signalled[s] /\ proc[s] # "alive" /\ Quiescent) =>
            (td[s] = "done" /\ ptyFile # s /\ em[s] = "closed" /\ pty[s] = "closed")

\* C8: in every teardown the emulator is closed before the PTY file and
\* the PTY file is closed before the wait for the process begins.
C8_TeardownOrdered ==
    \A s \in Sessions :
        /\ pty[s] = "closed" => em[s] = "closed"
        /\ td[s] \in {"wait", "done"} => pty[s] = "closed"
        /\ proc[s] = "waited" => pty[s] = "closed"

\* C8 witness: an explicitly stopped session whose teardown ran to the end.
C8_Witness ==
    \E s \in Sessions :
        /\ signalled[s] /\ td[s] = "done"
        /\ em[s] = "closed" /\ pty[s] = "closed" /\ proc[s] = "waited"

\* C9: the forwarding loop of a session forwards only while that session's
\* emulator is open: once it is closed the loop is never again blocked in a
\* Read on an emulator that is still open.
C9_ForwardEndsWithEmulator ==
    \A s \in Sessions :
        em[s] = "closed" =>
            ~(fwd[s].pc = "read" /\ em[fwd[s].em] = "open")

\* C10: a keystroke write of the core and a write of the forwarding
\* goroutine are never in progress on the same PTY at the same time.
C10_WritesSerialized ==
    \A s \in Sessions :
        ~(coreWrite = s /\ \E f \in Sessions : fwd[f].pc = "write" /\ fwd[f].pty = s)

\* C11: a launch whose PTY allocation fails returns an AgentExitedMsg and
\* leaves its fresh emulator closed with no PTY and no process; no handle of
\* that launch is ever held by the instance, and handling the message leaves
\* the instance in Status exited with all three handles nil.
C11_LaunchFailureExits ==
    [][ \A s \in Sessions :
          /\ (launch[s] = "running" /\ launch'[s] = "failed") =>
                /\ exitMsgs'[s] = exitMsgs[s] + 1
                /\ em'[s] = "closed" /\ pty'[s] = "none" /\ proc'[s] = "none"
          /\ launch'[s] = "failed" =>
                /\ em'[s] = "closed" /\ pty'[s] = "none" /\ proc'[s] = "none"
                /\ cmd' # s /\ ptyFile' # s /\ emulator' # s
          /\ (launch[s] = "failed" /\ launch'[s] = "done") =>
                /\ Status' = "exited"
                /\ cmd' = Nil /\ ptyFile' = Nil /\ emulator' = Nil
                /\ em'[s] = "closed" /\ pty'[s] = "none" /\ proc'[s] = "none" ]_vars

\* The size a finished delayedResize command leaves, and its intermediate.
JiggleFull(s) == jig[s].size
JiggleMid(s) == <<jig[s].size[1] - 1, jig[s].size[2]>>

\* The sizes of the PTY and of the emulator the instance holds.
InstPtySize == ptySize[ptyFile]
InstEmSize == emSize[emulator]

\* C12: a jiggle invoked with (rows, cols) on an instance with a live
\* session, no other resize step interleaved, first brings the instance's
\* PTY and emulator to (rows-1, cols), then both to (rows, cols), where
\* they are when it ends.
C12_JiggleSteps ==
    \A s \in Sessions :
        (jig[s].alone /\ ptyFile # Nil /\ emulator # Nil) =>
            /\ jig[s].pc = "em1" => InstPtySize = JiggleMid(s)
            /\ jig[s].pc = "pty2" =>
                    InstPtySize = JiggleMid(s) /\ InstEmSize = JiggleMid(s)
            /\ jig[s].pc = "em2" =>
                    InstPtySize = JiggleFull(s) /\ InstEmSize = JiggleMid(s)
            /\ jig[s].pc = "done" =>
                    InstPtySize = JiggleFull(s) /\ InstEmSize = JiggleFull(s)

\* No resize handler and no delayedResize command is under way.
ResizeWorkDone ==
    /\ coreResize = Nil
    /\ \A k \in Sessions : jig[k].pc \in {"none", "done"}

\* C13: a resize the core applied to a session is not lost to a jiggle:
\* once the jiggle and the resize handling have finished, the PTY and the
\* emulator of the session the instance runs have the size of the latest
\* resize request.
C13_ResizeNotLost ==
    \A s \in Sessions :
        (Status = "running" /\ ptyFile = s /\ emulator = s
           /\ lastReq[s] # NoSize /\ ResizeWorkDone) =>
            (ptySize[s] = lastReq[s] /\ emSize[s] = lastReq[s])

\* C14: whenever no resize step is mid-execution (the core is not between
\* Setsize and Resize, no jiggle is between its Setsize and its Resize),
\* the PTY and the emulator of the session the instance runs have the same
\* size.
C14_SizesEqual ==
    \A s \in Sessions :
        (Status = "running" /\ ptyFile = s /\ emulator = s
           /\ coreResize = Nil
           /\ \A k \in Sessions : jig[k].pc \notin {"em1", "em2"}) =>
            ptySize[s] = emSize[s]

\* C15: when CanEquip holds for a skill, two ToggleEquip calls in a row with
\* that skill give back the loadout the first call started from, the
\* skills equipped before in their order.
C15_ToggleTwiceRestores == eqRun = 2 => Equipped = eqBase

\* A pair of ToggleEquip calls completed on a loadout of several skills.
C15_Witness == eqRun = 2 /\ Len(eqBase) >= 2 /\ Equipped = eqBase

\* No skill ID occurs twice in the list.
NoDuplicate(list) ==
    \A i, k \in 1..Len(list) : list[i] = list[k] => i = k

\* C16: every loadout reached from the instance's initial loadout by
\* ToggleEquip calls and character-sheet unequips holds at most
\* MaxEquipSlots skills, no ID twice and no innate skill of the class.
C16_LoadoutWellFormed ==
    /\ Len(Equipped) <= MaxEquipSlots
    /\ NoDuplicate(Equipped)
    /\ classCfg # NoClass =>
          \A i \in 1..Len(Equipped) : ~IsInnate(classCfg, Equipped[i])

\* ComposePrompt has returned for a configured class.
Composed == composed # NotComposed /\ compClass # NoClass

\* C17: no slot of the result that is not marked innate holds a skill of
\* the class's innate list, also when the equipped list names such a skill.
C17_EquippedExcludesInnate ==
    Composed =>
        \A i \in 1..Len(composed[1].Slots) :
            ~composed[1].Slots[i].IsInnate =>
                ~IsInnate(compClass, composed[1].Slots[i].SkillID)

\* A call whose equipped list names a known innate skill of the class and a
\* known skill that is not innate.
C17_Witness ==
    /\ Composed
    /\ \E i \in 1..Len(compEquipped) :
          IsInnate(compClass, compEquipped[i]) /\ SkillKnown(compEquipped[i])
    /\ \E i \in 1..Len(composed[1].Slots) : ~composed[1].Slots[i].IsInnate

\* round(words * 1.3), halves rounded up.
RoundTokens(words) == (words * 13 + 5) \div 10

\* C18: each slot's Tokens is round(wordCount * 1.3) and TotalTokens is the
\* sum of the slots' Tokens; with the innate skill of 5 words and the
\* equipped skill of 10 words the result has the two slots in the order
\* innate, equipped and TotalTokens 7 + 13 = 20.
C18_TokenEstimate ==
    Composed =>
        /\ \A i \in 1..Len(composed[1].Slots) :
              composed[1].Slots[i].Tokens =
                  RoundTokens(CfgSkillWords[composed[1].Slots[i].SkillID])
        /\ composed[1].TotalTokens = SumTokens(composed[1].Slots)
        /\ (compClass.InnateSkills = <<1>> /\ compEquipped = <<2>>) =>
              /\ Len(composed[1].Slots) = 2
              /\ composed[1].Slots[1].SkillID = 1 /\ composed[1].Slots[1].IsInnate
              /\ composed[1].Slots[2].SkillID = 2 /\ ~composed[1].Slots[2].IsInnate
              /\ composed[1].TotalTokens = 20

\* list without the elements that occurred earlier in it.
RECURSIVE Dedup(_)
Dedup(list) ==
    IF list = <<>> THEN <<>>
    ELSE LET front == Dedup(SubSeq(list, 1, Len(list) - 1))
             last == list[Len(list)]
         IN  IF Has(front, last) THEN front ELSE Append(front, last)

\* The skill IDs of the slots, in order.
SlotIDs(slots) == [i \in 1..Len(slots) |-> slots[i].SkillID]

\* C19: the sections come in the order role header, agent profile (only
\* with directives), the class's innate skills in declared order, the
\* equipped skills that are not innate in loadout order, and no skill ID
\* holds more than one slot, also when a list repeats an ID.
C19_FixedOrderNoDuplicates ==
    Composed =>
        LET r == composed[1]
            head == IF compDirectives THEN 2 ELSE 1
            innate == Dedup(SelectSeq(compClass.InnateSkills, SkillKnown))
            wanted(sid) == ~IsInnate(compClass, sid) /\ SkillKnown(sid)
            equipped == Dedup(SelectSeq(compEquipped, wanted))
        IN  /\ r.Prompt[1].kind = "role"
            /\ compDirectives => r.Prompt[2].kind = "agent profile"
            /\ Len(r.Prompt) = head + Len(r.Slots)
            /\ \A i \in 1..Len(r.Slots) :
                  /\ r.Prompt[head + i].id = r.Slots[i].SkillID
                  /\ r.Prompt[head + i].kind =
                        (IF r.Slots[i].IsInnate THEN "innate skill" ELSE "skill")
                  /\ r.Slots[i].IsInnate <=> i <= Len(innate)
            /\ SlotIDs(r.Slots) = innate \o equipped
            /\ NoDuplicate(SlotIDs(r.Slots))

\* C20: of two successful setupWorktree calls for the pair made one right
\* after the other, the second returns the path and the branch of the
\* first and creates no worktree: it reuses the one the first returned.
C20_SetupWorktreeIdempotent ==
    \A i \in 1..(Len(wtLog) - 1) :
        (wtLog[i].op = "setup" /\ wtLog[i].ok
           /\ wtLog[i + 1].op = "setup" /\ wtLog[i + 1].ok) =>
            /\ wtLog[i + 1].path = wtLog[i].path
            /\ wtLog[i + 1].branch = wtLog[i].branch
            /\ ~wtLog[i + 1].created

\* A call that created the worktree followed at once by a successful call.
C20_Witness ==
    \E i \in 1..(Len(wtLog) - 1) :
        /\ wtLog[i].op = "setup" /\ wtLog[i].ok /\ wtLog[i].created
        /\ wtLog[i + 1].op = "setup" /\ wtLog[i + 1].ok
        /\ wtFs[wtLog[i].path] = "valid"

\* C21: when the project is not a git repository setupWorktree returns an
\* error, and whenever it returns an error (outside a repository or because
\* no worktree could be created) the launcher starts the child in the
\* project directory, which exists, and the AgentStartedMsg of that launch
\* carries an empty Worktree and an empty Branch.
C21_IsolationFailureDegrades ==
    \A s \in Sessions :
        /\ (SetupReturned(s) /\ ~isRepo) => setupPc[s] = "err"
        /\ setupPc[s] = "err" =>
              /\ workDir[s] = "project"
              /\ WorkDirExists(s)
              /\ startedWt[s] = "" /\ startedBr[s] = ""

\* A launch in a repository whose worktree could not be created has started
\* its child all the same, and one outside a repository has, too.
C21_Witness ==
    \E s \in Sessions :
        /\ launch[s] = "started" /\ setupPc[s] = "err" /\ proc[s] = "alive"
        /\ isRepo /\ gitLog[s][Len(gitLog[s])] = "add-b"

\* The k-th cleanupWorktree goroutine runs its last command in this step.
CleanupEnds(k) == cleanups[k].pc # "done" /\ cleanups'[k].pc = "done"

\* The k-th cleanupWorktree goroutine runs a command in this step.
CleanupRuns(k) == cleanups'[k].pc # cleanups[k].pc

\* handleCheckoutWorktree starts a cleanupWorktree goroutine in this step.
CleanupStarts(action) ==
    /\ Len(cleanups') = Len(cleanups) + 1
    /\ cleanups'[Len(cleanups')].action = action

\* C22: the step that applies "discard" leaves the instance with empty
\* Worktree and Branch; no command of the discard changes the base or its
\* index; and when its last command has run the worktree path does not
\* exist and the branch is not in the repository.
C22_DiscardRemoves ==
    [][ /\ CleanupStarts("discard") => Worktree' = "" /\ Branch' = ""
        /\ \A k \in DOMAIN cleanups :
              cleanups[k].action = "discard" =>
                 /\ CleanupRuns(k) => merged' = merged /\ index' = index
                 /\ CleanupEnds(k) =>
                       wtFs'[KeyPath] = "absent" /\ KeyBranch \notin branches'
      ]_vars

\* A launcher is inside setupWorktree, a cleanupWorktree goroutine or the
\* cleanupPartyWorktrees goroutine is between its first and last command.
SetupInside(s) ==
    launch[s] = "running" /\ setupPc[s] \notin {"none", "ok", "err"}
CleanupInside(k) ==
    cleanups[k].pc \notin {CleanupFirst(cleanups[k].action), "done"}
PartyCleanupInside == partyCleanup.pc \in {"remove", "branch", "rmall"}

\* C27: no two launchers are inside setupWorktree for the instance's key
\* at once, and none is while a cleanupWorktree goroutine for the key or
\* the cleanupPartyWorktrees goroutine of its party is at work.
C27_WorktreeOpsSerialized ==
    /\ \A s1, s2 \in Sessions :
          SetupInside(s1) /\ SetupInside(s2) => s1 = s2
    /\ \A s \in Sessions :
          SetupInside(s) =>
             /\ ~PartyCleanupInside
             /\ \A k \in DOMAIN cleanups : ~CleanupInside(k)

\* handleCheckoutWorktree handles "2" or esc in this step.
KeepStep ==
    /\ mode = "checkout" /\ checkoutStep = 3
    /\ mode' = "normal" /\ cleanups' = cleanups

\* The instance waits for its next launch with the bindings a "keep" left.
Kept ==
    /\ ~partyDeleted
    /\ Status = "exited" /\ mode = "normal" /\ ~checkoutAgent
    /\ Worktree # ""

\* What setupWorktree takes as it is (part_003:234-238): a valid worktree
\* at the path, on the branch of the pair.
KeyReusable == wtFs[KeyPath] = "valid" /\ KeyBranch \in branches

\* C23: the step that applies "keep" changes neither the worktree
\* directory, nor the branch, nor the bindings of the instance, and while
\* the instance then waits for its next launch the worktree and the branch
\* are there for setupWorktree to reuse.
C23_KeepPreserves ==
    [][ /\ KeepStep =>
              /\ wtFs' = wtFs /\ branches' = branches /\ wtReg' = wtReg
              /\ Worktree' = Worktree /\ Branch' = Branch
        /\ Kept' => KeyReusable'
      ]_vars

\* The commands of cleanupWorktree for "merge", in the order of
\* part_003:264-268, as positions of the goroutine.
MergeOrder == <<"merge", "commit", "remove", "branch", "done">>

\* The k-th goroutine goes from one position of MergeOrder to the next.
MergeInOrder(k) ==
    \E i \in 1..(Len(MergeOrder) - 1) :
        cleanups[k].pc = MergeOrder[i] /\ cleanups'[k].pc = MergeOrder[i + 1]

\* C24: a cleanupWorktree goroutine for "merge" runs the squash merge, the
\* commit, the removal of the worktree and the deletion of the branch in
\* this order, and when its last command has run the base contains the
\* work of the branch, the worktree path does not exist and the branch is
\* not in the repository.
C24_MergeIntegrates ==
    [][ \A k \in DOMAIN cleanups :
           cleanups[k].action = "merge" =>
              /\ CleanupRuns(k) => MergeInOrder(k)
              /\ CleanupEnds(k) =>
                    /\ merged'
                    /\ wtFs'[KeyPath] = "absent"
                    /\ KeyBranch \notin branches'
      ]_vars

\* The cleanupPartyWorktrees goroutine runs its last command in this step.
PartyCleanupEnds == partyCleanup.pc # "done" /\ partyCleanup'.pc = "done"

\* The forge branches of a party that are in the repository.
PartyBranches(g, party) == {b \in g.br : b[2] = party}

\* C28: when the cleanupPartyWorktrees goroutine of a deleted party has run
\* its last command, no worktree directory of the party exists, none is
\* registered in the repository and no branch forge/<party>/<agent> is left.
C28_PartyDeleteDisposes ==
    [][ PartyCleanupEnds =>
           /\ \A path \in PartyPaths(IsoPair[1]) :
                 wtFs'[path] = "absent" /\ path \notin wtReg'
           /\ PartyBranches(GitState', IsoPair[1]) = {}
      ]_vars

\* What setupWorktree runs when it takes the worktree it finds
\* (part_003:225-238).
ReuseLog == <<"rev-parse", "stat", "rev-parse-wt">>

\* What it runs on a path that is not a valid worktree, up to the creation
\* (part_003:225-245).
RecreateLog == ReuseLog \o <<"remove", "rm", "prune">>

IsPrefix(a, b) == Len(a) <= Len(b) /\ SubSeq(b, 1, Len(a)) = a

\* The commands of one setupWorktree: after the check of an existing path
\* come the forced removal and the prune, a creation command comes after a
\* prune only, and "git worktree add -b" directly after a
\* "git worktree add".
SetupLogOrdered(log) ==
    /\ (Len(log) > Len(ReuseLog) /\ IsPrefix(ReuseLog, log)) =>
          \/ IsPrefix(log, RecreateLog)
          \/ IsPrefix(RecreateLog, log)
    /\ \A i \in 1..Len(log) :
          /\ log[i] \in {"add", "add-b"} => \E j \in 1..(i - 1) : log[j] = "prune"
          /\ log[i] = "add-b" => i > 1 /\ log[i - 1] = "add"

\* The launcher of session s runs the step of setupWorktree that follows pc.
SetupLeaves(s, pc) == setupPc[s] = pc /\ setupPc'[s] # pc

\* C29: with a path at the worktree location, setupWorktree returns a
\* valid worktree after three read-only commands and changes nothing; one
\* that is not valid it removes by force, so that the path is gone and,
\* after the prune, unregistered before the first "git worktree add"; the
\* creation tries the existing branch first and "add -b" only when that
\* failed.
C29_ExistingPathHandled ==
    [][ \A s \in Sessions :
           /\ SetupLeaves(s, "check") =>
                 IF wtFs[KeyPath] = "valid"
                    THEN /\ setupPc'[s] = "ok" /\ gitLog'[s] = ReuseLog
                         /\ GitState' = GitState
                    ELSE setupPc'[s] = "remove"
           /\ SetupLeaves(s, "rmall") => wtFs'[KeyPath] = "absent"
           /\ SetupLeaves(s, "prune") =>
                 (wtFs[KeyPath] = "absent" => KeyPath \notin wtReg')
           /\ SetupLeaves(s, "add") =>
                 (setupPc'[s] = "ok") = (KeyBranch \in branches /\ CanAdd(GitState, KeyPath))
           /\ SetupLogOrdered(gitLog'[s])
           /\ (setupPc'[s] = "ok" /\ IsPrefix(ReuseLog, gitLog'[s])
                 /\ Len(gitLog'[s]) > Len(ReuseLog)) =>
                 gitLog'[s][Len(gitLog'[s])] \in {"add", "add-b"}
      ]_vars

\* One session has replaced a stale worktree by a new one on the existing
\* branch, and a later one has taken that worktree as it is.
C29_Witness ==
    \E s1, s2 \in Sessions :
        /\ setupPc[s1] = "ok" /\ gitLog[s1] = RecreateLog \o <<"add">>
        /\ setupPc[s2] = "ok" /\ gitLog[s2] = ReuseLog
        /\ launch[s2] = "done"

\* The core handles the AgentExitedMsg of launch l in this step.
ExitHandled(l) == ExitInFlight(l) /\ runs'[l].st = "over"

\* After the step the instance is marked exited, with its pending loadout
\* applied and no handles.
ExitedAndApplied(i) ==
    /\ agents'[i].Status = "exited"
    /\ ~agents'[i].HasPending
    /\ agents'[i].PendingEquipped = <<>> /\ agents'[i].PendingPassives = <<>>
    /\ agents[i].HasPending =>
          /\ agents'[i].Equipped = agents[i].PendingEquipped
          /\ agents'[i].Passives = agents[i].PendingPassives
    /\ ~agents[i].HasPending =>
          /\ agents'[i].Equipped = agents[i].Equipped
          /\ agents'[i].Passives = agents[i].Passives
    /\ agents'[i].emulator = Nil /\ agents'[i].ptyFile = Nil /\ agents'[i].cmd = Nil

\* After the step LastOutput is the end of what emulator e, still open,
\* showed: all of it up to SnapLimit bytes, and so at most SnapLimit
\* characters.
SnapshotOf(i, e) ==
    /\ e # Nil /\ runs[e].em = "open" /\ runs'[e].em = "closing"
    /\ LET shown == ReplaceCRLF(runs'[e].shown)
           out   == agents'[i].LastOutput
       IN  /\ ByteLen(out) = IF ByteLen(shown) > SnapLimit THEN SnapLimit
                                                           ELSE ByteLen(shown)
           /\ CharLen(out) <= SnapLimit
           /\ ByteLen(shown) <= SnapLimit => out = shown

\* C30 as stated: every step that handles an AgentExitedMsg marks the
\* instance exited, applies its pending loadout, releases the handles and
\* stores in LastOutput a snapshot of at most 2000 characters of the screen
\* of an emulator that is not yet closed.
C30_ExitSnapshotsAlways ==
    [][ \A l \in DOMAIN runs :
           ExitHandled(l) =>
              /\ ExitedAndApplied(runs[l].inst)
              /\ SnapshotOf(runs[l].inst, agents[runs[l].inst].emulator)
      ]_vars

\* C30, amended: every step that handles an AgentExitedMsg marks the
\* instance exited, applies its pending loadout and releases the handles;
\* when the instance holds an emulator, LastOutput becomes the snapshot of
\* its screen, taken while it is open and closed only afterwards by the
\* goroutine; when it holds none, LastOutput stays as it was.
C30_ExitSnapshotsHeldScreen ==
    [][ \A l \in DOMAIN runs :
           ExitHandled(l) =>
              LET i == runs[l].inst
              IN  /\ ExitedAndApplied(i)
                  /\ mode' = "checkout" /\ checkoutId' = i
                  /\ IF agents[i].emulator # Nil
                        THEN SnapshotOf(i, agents[i].emulator)
                        ELSE agents'[i].LastOutput = agents[i].LastOutput
      ]_vars

\* An instance with a pending loadout has exited on a screen longer than
\* the limit: the loadout is applied, the snapshot is cut, and the emulator
\* it was taken from has been closed since.
C30_Witness ==
    \E l \in DOMAIN runs :
        /\ runs[l].st = "over" /\ runs[l].em = "closed"
        /\ ByteLen(ReplaceCRLF(runs[l].shown)) > SnapLimit
        /\ ByteLen(agents[runs[l].inst].LastOutput) = SnapLimit
        /\ CharLen(agents[runs[l].inst].LastOutput) < SnapLimit
        /\ agents[runs[l].inst].Equipped = <<2, 1>>
        /\ agents[runs[l].inst].Status = "exited"

\* startAgent is called in this step.
StartStep == Len(runs') = Len(runs) + 1

\* The launch started in this step has the HandoffContext of the instance
\* in its LaunchConfig, and the instance is left without one.
StartConsumes ==
    StartStep =>
       LET l == Len(runs')
           i == runs'[l].inst
       IN  /\ runs'[l].handoff = agents[i].HandoffContext
           /\ agents'[i].HandoffContext = NoHandoff

\* The launches whose LaunchConfig carries the n-th handoff text.
Carriers(n) == {l \in DOMAIN runs : runs[l].handoff.n = n}

\* The launches of instance i that startAgent was called for after there
\* were at launches.
RunsAfter(i, at) == {l \in DOMAIN runs : l > at /\ runs[l].inst = i}

\* The n-th handoff text was replaced by a later one on the same target
\* before launch l.
Replaced(n, l) ==
    \E n2 \in DOMAIN handoffLog :
        n2 > n /\ handoffLog[n2].to = handoffLog[n].to /\ handoffLog[n2].at < l

\* The prompt a launcher has built ends with the handoff text of its
\* LaunchConfig when there is one, and is the composed prompt alone when
\* there is none.
PromptCarries(l) ==
    runs[l].prompt # <<>> =>
       IF runs[l].handoff = NoHandoff
          THEN runs[l].prompt = <<"composed">>
          ELSE runs[l].prompt = <<"composed", runs[l].handoff>>

\* Every handoff text is in the LaunchConfig of at most one launch, which
\* is the first launch of its target after it was set, and it is in that
\* launch unless another handoff replaced it on the target before.
HandoffOnce ==
    /\ \A l \in DOMAIN runs : PromptCarries(l)
    /\ \A n \in DOMAIN handoffLog :
          LET to    == handoffLog[n].to
              later == RunsAfter(to, handoffLog[n].at)
          IN  /\ Cardinality(Carriers(n)) <= 1
              /\ \A l \in Carriers(n) :
                    l \in later /\ \A l2 \in later : l <= l2
              /\ \A l \in later :
                    ((\A l2 \in later : l <= l2) /\ ~Replaced(n, l)) =>
                       l \in Carriers(n)
              /\ agents[to].HandoffContext.n = n => Carriers(n) = {}

\* C25: startAgent passes the HandoffContext the instance holds in the
\* LaunchConfig and clears it on the instance, the launcher appends it to
\* the prompt, and so the handoff text a target was given is carried by
\* the next launch of that target and by no other launch (of two texts set
\* before one launch, the instance holds the later).
C25_HandoffConsumedOnce == []HandoffOnce /\ [][StartConsumes]_vars

\* A target was launched with a handoff text appended to its prompt and
\* then launched again with the composed prompt alone.
C25_Witness ==
    \E l1, l2 \in DOMAIN runs :
        /\ l1 < l2 /\ runs[l1].inst = runs[l2].inst
        /\ runs[l1].handoff # NoHandoff
        /\ runs[l1].prompt = <<"composed", runs[l1].handoff>>
        /\ runs[l2].prompt = <<"composed">>

\* The positions of instance i among the slots and the bench.
Positions(i) ==
    Cardinality({x \in SlotIndexes : Slots[x] = i})
       + Cardinality({k \in DOMAIN Bench : Bench[k] = i})

\* Each instance of the party is in exactly one slot or bench position.
ExclusiveOwnership == \A i \in DOMAIN agents : Positions(i) = 1

\* Slots and bench change in swap mode only, and then by the exchange of
\* the selected slot with the chosen bench entry.
SwapExchanges ==
    (Slots' # Slots \/ Bench' # Bench) =>
       /\ mode = "swap"
       /\ Slots' = [Slots EXCEPT ![selectedAgent] = Bench[swapIndex + 1]]
       /\ Bench' = [Bench EXCEPT ![swapIndex + 1] = Slots[selectedAgent]]

\* C26: in every state each instance of the party occupies exactly one
\* position among the slots and the bench, and the only change of slots
\* and bench is the swap, which exchanges the occupant of the selected
\* slot with the chosen bench entry.
C26_ExclusiveOwnership == []ExclusiveOwnership /\ [][SwapExchanges]_vars

\* Two swaps have brought the bench instance into the first slot and the
\* instance of the first slot into the second.
C26_Witness ==
    /\ mode = "normal" /\ ~crashed
    /\ Slots[0] = 3 /\ Slots[1] = 1 /\ Bench = <<2>>

\* The step is handleAgentOutput on a running instance.
OutputHandled == outputReads' = outputReads + 1

\* The last 500 characters of the screen hold a match of the pattern.
TailCharsMatch(sc) ==
    LET shown == IF ScreenChars(sc) > ScanLimit THEN ScanLimit ELSE ScreenChars(sc)
    IN  FindUsage(sc, shown - sc.post) # <<>>

\* C31: the context scan runs only in handleAgentOutput, on every 50th
\* output handled for the instance and only with a non-nil emulator; a scan
\* whose screen has no usage pattern in its last 500 characters leaves
\* ContextTokens and ContextMax as they were; handling the output never
\* changes Status and always issues the next PTY read.
C31_ScanBestEffort ==
    [][ /\ outputReads' # outputReads => OutputHandled
        /\ (ContextTokens' # ContextTokens \/ ContextMax' # ContextMax) =>
              OutputHandled /\ ctxScan'.called
        /\ OutputHandled =>
              /\ ctxScan'.called <=> (outputReads' % ScanEvery = 0 /\ emulator # Nil)
              /\ (ctxScan'.called /\ ~TailCharsMatch(ctxScan'.screen[1])) =>
                    UNCHANGED <<ContextTokens, ContextMax>>
              /\ Status = "running" /\ Status' = "running"
              /\ UNCHANGED <<cmd, ptyFile, emulator>>
              /\ IF ptyFile # Nil /\ emulator # Nil
                    THEN reads'[ptyFile] = reads[ptyFile] + 1
                    ELSE exitMsgs'[Nil] = exitMsgs[Nil] + 1 ]_vars

\* C31 witness: the 50th output of the instance was handled in its second
\* session, the scan found no usage pattern in the last 500 characters and
\* the next read is outstanding.
C31_Witness ==
    /\ outputReads = ScanEvery /\ ContextBytes < outputReads
    /\ ctxScan.called /\ ~TailCharsMatch(ctxScan.screen[1])
    /\ ContextTokens = 0 /\ ContextMax = 0
    /\ Status = "running" /\ ptyFile # Nil /\ reads[ptyFile] > 0

\* C40: right after handleAgentStarted has installed a session, before any
\* of its output is handled, ContextBytes, ContextTokens and ContextMax are
\* all zero.
C40_CountersStartAtZero ==
    [][ \A s \in Sessions :
          (launch[s] = "started" /\ launch'[s] = "done") =>
              ContextBytes' = 0 /\ ContextTokens' = 0 /\ ContextMax' = 0 ]_vars

\* C32: an AgentExitedMsg tears down only the session it comes from: when
\* the message of origin o is handled, the handles it clears and hands to
\* the cleanup goroutine are those of session o, never those of a session
\* started later on the instance.
C32_ExitTearsOwnSession ==
    [][ \A o \in Origins :
          (exitMsgs'[o] = exitMsgs[o] - 1 /\ emulator # Nil) => emulator = o ]_vars

\* C33: no session's resources leak: once the child of a successfully
\* launched session has exited and nothing is pending any more for the
\* instance, its emulator and PTY are closed and its process has been waited
\* for.
C33_NoSessionLeaks ==
    \A s \in Sessions :
        (proc[s] \in {"exited", "waited"} /\ Quiescent) =>
            (em[s] = "closed" /\ pty[s] = "closed" /\ proc[s] = "waited")

\* C34: the merge disposition never destroys unmerged work: a "merge"
\* cleanupWorktree goroutine removes the worktree and deletes the branch
\* only when the base holds the squash commit of the branch; when the merge
\* or the commit failed, the branch is still in the repository afterwards.
C34_MergeKeepsUnmergedWork ==
    [][ \A k \in DOMAIN cleanups :
           cleanups[k].action = "merge" =>
              /\ (CleanupRuns(k) /\ wtFs[KeyPath] # "absent"
                    /\ wtFs'[KeyPath] = "absent") => merged
              /\ (CleanupRuns(k) /\ KeyBranch \in branches
                    /\ KeyBranch \notin branches') => merged
      ]_vars

\* C39: a pending checkout is never lost: while the checkout modal of an
\* exited instance is open, it is only ever left by completing it; an
\* AgentExitedMsg for another instance does not replace it.
C39_CheckoutNotLost ==
    [][ (mode = "checkout" /\ checkoutId # Nil /\ checkoutId' # checkoutId) =>
            (checkoutId' = Nil /\ mode' = "normal") ]_vars

\* C36: background workers never use a handle the core has cleared: the
\* forwarding loop never calls Read on a nil inst.emulator, and a
\* delayedResize command that passed its nil check never calls Setsize on a
\* nil PTY or Resize on a nil emulator.
C36_WorkersUseHeldHandles ==
    \A s \in Sessions :
        /\ fwd[s].pc # "panic"
        /\ jig[s].pc # "panic"
        /\ jig[s].pc \in {"pty1", "pty2"} => ptyFile # Nil
        /\ jig[s].pc \in {"em1", "em2"} => emulator # Nil

\* C37: no write reaches a PTY file the teardown has closed: neither a
\* write of the forwarding goroutine, from its nil test to the return of
\* Write, nor a keystroke write of the core is under way on a closed file.
C37_NoWriteAfterClose ==
    /\ \A s \in Sessions :
          fwd[s].pc = "write" => pty[fwd[s].pty] # "closed"
    /\ coreWrite # Nil => pty[coreWrite] # "closed"


\* C35: agentByID finds every instance in a slot or on the bench of a party
\* of the list, and only those: the index maps the ID of each of them to
\* it and holds no other instance, so no AgentStartedMsg for an instance
\* of an existing party is dropped.
C35_IndexComplete ==
    LET held == UNION {PartyInsts(parties[k]) : k \in DOMAIN parties}
    IN  /\ \A i \in held : AgentByID(instID[i]) = i
        /\ \A e \in agentIndex : e.inst \in held
        /\ \A l \in DOMAIN runs :
              runs[l].st = "dropped" => runs[l].inst \notin held

\* C38: when a party is removed from the list, the child of every running
\* instance of that party, in a slot or on the bench, has been signalled.
C38_DeleteSignalsRunning ==
    [][ Len(parties') < Len(parties) =>
            \A i \in PartyInsts(parties[activeParty + 1]) :
                agents[i].Status = "running" => agents[i].cmd \in termed' ]_vars


====
